---- MODULE Spec2Model ----
(***************************************************************************)
(* Scrape orchestration engine of manga_scraper: the shared-store rate     *)
(* limiter (core/redis.py), the browser pool (scrapers/browser_pool.py),   *)
(* the fetch strategy (scrapers/base.py), the job lifecycle                *)
(* (workers/tasks.py, api/routes/jobs.py) and the series merge             *)
(* (workers/tasks.py).  Each subsystem has its own specification over its  *)
(* own variables; the variables of the other subsystems stay parked.       *)
(***************************************************************************)
EXTENDS Integers, Sequences, FiniteSets, TLC

None == "None"
\* Python's None where the value is otherwise an integer
Nil == 0 - 1




VARIABLES
    now,        \* wall clock, seconds
    \* ---- rate limiter (core/redis.py)
    store,      \* the shared store: key -> NoKey or [val, exp]; exp = Nil: no TTL
    limitOf,    \* the limit each key is called with (settings.get_rate_limit)
    rpc,        \* caller -> position inside check_rate_limit
    rkey,       \* caller -> key of the call in progress
    rcur,       \* caller -> the value GET returned
    rcalls,     \* caller -> calls started so far
    grants,     \* key -> times at which a call returned True
    denials,    \* key -> times at which a call returned False
    window_start, \* key -> time the counter now in the store was created, or Nil
    \* ---- browser pool (scrapers/browser_pool.py)
    pool_size,   \* self.pool_size
    instances,   \* self._instances: the list of tracked sessions (ids)
    inst,        \* id -> the BrowserInstance object (tracked or not)
    nextId,      \* id of the next session _create_browser makes
    lockOwner,   \* holder of self._lock, or None
    lockQueue,   \* callers waiting for self._lock, first come first served
    ppc,         \* caller -> position inside fetch_page / acquire
    held,        \* caller -> the session acquire gave it, or Nil
    acq,         \* caller -> request_count and age of the session when acquire returned it
    pfetches,    \* caller -> fetches started so far
    closes,      \* close() calls so far
    pexit,       \* how the last BrowserPool.fetch_page ended
    depth,       \* caller -> nested _get_instance calls of the acquire in progress
    \* ---- job lifecycle (workers/tasks.py, api/routes/jobs.py, models/job.py)
    jobs,        \* job id -> the Job row
    queue,       \* the task queue: dispatched messages [tid, retries, job]
    execs,       \* executions in flight [tid, retries, job, rc]
    revoked,     \* task ids revoked by cancel_job
    nextTid,     \* id of the next task .delay() dispatches
    execCount,   \* job id -> executions started
    raisedCount, \* job id -> executions that raised
    succeeded,   \* job id -> an execution returned normally
    jop,         \* the last job operation, <<name, job id>>; cancel_job adds its revoke calls
    \* ---- fetch strategy (scrapers/base.py)
    fpc,         \* position inside fetch_page
    freq,        \* the request: url, force_browser, wait_selector, requires_browser
    attempt,     \* attempt number of the tenacity retry around _fetch_http
    responses,   \* the HTTP responses received, in order
    browser_calls, \* the calls made to BrowserPool.fetch_page, in order
    fresult,     \* what fetch_page returned or raised
    fdenials,    \* rate-limit denials met by this fetch
    \* ---- series merge (workers/tasks.py scrape_series)
    db_series,   \* source_id -> the Series row, or NoSeries
    db_chapters, \* the Chapter rows
    mpc,         \* position inside scrape_series
    mrun,        \* the run in progress: url and adapter output
    mlast,       \* source_id -> adapter output of the last run that committed
    mres,        \* the last finished run: its result and what it found before
    mruns,       \* runs started so far
    \* ---- chapter images (workers/tasks.py scrape_chapter*, download_images)
    db_images,   \* the ChapterImage rows [id, chapter_id, page_number, is_downloaded]
    inext,       \* primary key of the next ChapterImage row
    ipc,         \* scrape task -> position inside the unit of work
    irun,        \* scrape task -> its chapter, images_data, loop index, session.add()s
    iscrapes,    \* chapter scrapes started so far
    dpc,         \* position inside download_images
    dl,          \* the download run: chapter, images, loop index, counters
    dres,        \* what the last download_images run returned
    idownloads,  \* download_images runs started so far
    db_scraped,  \* chapter id -> is_scraped, scraped_at, total_images of the Chapter row
    dispatched,  \* chapter id -> download_images messages the chapter scrapes dispatched
    \* ---- named lock (core/redis.py acquire_lock, release_lock)
    lock_store,  \* lock name -> NoKey or [val, exp] of the key lock:<name>
    lheld,       \* caller, name -> time its acquire_lock returned True, Nil once released
    \* ---- adapter registry (scrapers/__init__.py)
    reg_url,     \* the URL get_scraper_for_url is called with
    reg_result,  \* what it returned
    \* ---- job retention (workers/tasks.py cleanup_old_jobs), time in days
    old_jobs,    \* job id -> [status, completed_at, terminal_at] of a stored job
    cleaned,     \* [ran, deleted]: whether cleanup_old_jobs ran and the ids it deleted
    \* ---- browser sessions of a worker process (workers/tasks.py, scrapers/base.py)
    upc,         \* position of the worker: "idle", or "running" a unit of work
    utask,       \* the task of the unit that is running, or None
    upool,       \* sessions in the _browser_pool of the unit's scraper; Nil: no pool yet
    live,        \* browser sessions started in the worker and not stopped
    units        \* units of work started so far

rateVars == <<store, limitOf, rpc, rkey, rcur, rcalls, grants, denials,
              window_start>>
poolVars == <<pool_size, instances, inst, nextId, lockOwner, lockQueue,
              ppc, held, acq, pfetches, closes, pexit, depth>>
jobVars == <<jobs, queue, execs, revoked, nextTid, execCount, raisedCount,
             succeeded, jop>>
fetchVars == <<fpc, freq, attempt, responses, browser_calls, fresult, fdenials>>
mergeVars == <<db_series, db_chapters, mpc, mrun, mlast, mres, mruns>>

imageVars == <<db_images, inext, ipc, irun, iscrapes, dpc, dl, dres, idownloads,
               db_scraped, dispatched>>
lockVars == <<lock_store, lheld>>
regVars == <<reg_url, reg_result>>
cleanVars == <<old_jobs, cleaned>>
sessVars == <<upc, utask, upool, live, units>>
extraVars == <<imageVars, lockVars, regVars, cleanVars, sessVars>>

vars == <<now, rateVars, poolVars, jobVars, fetchVars, mergeVars, extraVars>>

nonRate == <<poolVars, jobVars, fetchVars, mergeVars, extraVars>>
nonPool == <<rateVars, jobVars, fetchVars, mergeVars, extraVars>>
nonJob == <<now, rateVars, poolVars, fetchVars, mergeVars, extraVars>>
nonFetch == <<now, rateVars, poolVars, jobVars, mergeVars, extraVars>>
nonMerge == <<now, rateVars, poolVars, jobVars, fetchVars, extraVars>>
nonImage == <<now, rateVars, poolVars, jobVars, fetchVars, mergeVars, lockVars,
              regVars, cleanVars, sessVars>>
nonLock == <<rateVars, poolVars, jobVars, fetchVars, mergeVars, imageVars, regVars,
             cleanVars, sessVars>>
nonReg == <<now, rateVars, poolVars, jobVars, fetchVars, mergeVars, imageVars,
            lockVars, cleanVars, sessVars>>
nonClean == <<rateVars, poolVars, jobVars, fetchVars, mergeVars, imageVars,
              lockVars, regVars, sessVars>>
nonSess == <<now, rateVars, poolVars, jobVars, fetchVars, mergeVars, imageVars,
             lockVars, regVars, cleanVars>>

(***************************************************************************)
(* Rate limiter: RedisClient.check_rate_limit                              *)
(***************************************************************************)
RateCallers == {"r1", "r2"}
RateKeys == {"rate:mgeko.cc", "rate:asuracomic.net"}
MaxLimit == 2
MaxRateCalls == 2
MaxTime == 90
\* window: int = 60
WINDOW == 60
TickStep == WINDOW \div 2

NoKey == [val |-> Nil, exp |-> Nil]

RateParked ==
    /\ store = [k \in RateKeys |-> NoKey]
    /\ limitOf = [k \in RateKeys |-> 1]
    /\ rpc = [c \in RateCallers |-> "idle"]
    /\ rkey = [c \in RateCallers |-> None]
    /\ rcur = [c \in RateCallers |-> Nil]
    /\ rcalls = [c \in RateCallers |-> 0]
    /\ grants = [k \in RateKeys |-> <<>>]
    /\ denials = [k \in RateKeys |-> <<>>]
    /\ window_start = [k \in RateKeys |-> Nil]

RateInit ==
    /\ now = 0
    /\ store = [k \in RateKeys |-> NoKey]
    /\ limitOf \in [RateKeys -> 1..MaxLimit]
    /\ rpc = [c \in RateCallers |-> "idle"]
    /\ rkey = [c \in RateCallers |-> None]
    /\ rcur = [c \in RateCallers |-> Nil]
    /\ rcalls = [c \in RateCallers |-> 0]
    /\ grants = [k \in RateKeys |-> <<>>]
    /\ denials = [k \in RateKeys |-> <<>>]
    /\ window_start = [k \in RateKeys |-> Nil]

\* client.get(key): the value, or None for a missing key
StoreGet(k) == IF store[k] = NoKey THEN Nil ELSE store[k].val

\* client.setex(key, window, 1): value 1, expiry window seconds from now
StoreSetex(k, ttl, v) == [store EXCEPT ![k] = [val |-> v, exp |-> now + ttl]]

\* client.incr(key): a missing key is created as 1 with no expiry; an
\* existing key keeps its expiry
StoreIncr(k) ==
    IF store[k] = NoKey
    THEN [store EXCEPT ![k] = [val |-> 1, exp |-> Nil]]
    ELSE [store EXCEPT ![k] = [val |-> store[k].val + 1, exp |-> store[k].exp]]

\* keys whose expiry has passed are gone
StoreExpire(s, t) ==
    [k \in DOMAIN s |->
        IF s[k] /= NoKey /\ s[k].exp /= Nil /\ s[k].exp <= t THEN NoKey ELSE s[k]]

\* current = await client.get(key)
check_rate_limit_get(c) ==
    /\ UNCHANGED nonRate
    /\ rpc[c] = "idle"
    /\ rcalls[c] < MaxRateCalls
    /\ \E k \in RateKeys :
        /\ rkey' = [rkey EXCEPT ![c] = k]
        /\ rcur' = [rcur EXCEPT ![c] = StoreGet(k)]
    /\ rpc' = [rpc EXCEPT ![c] = "read"]
    /\ rcalls' = [rcalls EXCEPT ![c] = @ + 1]
    /\ UNCHANGED <<now, store, limitOf, grants, denials, window_start>>

\* if current is None: setex(key, window, 1); return True
check_rate_limit_setex(c) ==
    /\ UNCHANGED nonRate
    /\ rpc[c] = "read"
    /\ rcur[c] = Nil
    /\ store' = StoreSetex(rkey[c], WINDOW, 1)
    /\ grants' = [grants EXCEPT ![rkey[c]] = Append(@, now)]
    /\ window_start' = [window_start EXCEPT ![rkey[c]] =
            IF store[rkey[c]] = NoKey THEN now ELSE @]
    /\ rpc' = [rpc EXCEPT ![c] = "idle"]
    /\ UNCHANGED <<now, limitOf, rkey, rcur, rcalls, denials>>

\* if int(current) >= limit: return False
check_rate_limit_deny(c) ==
    /\ UNCHANGED nonRate
    /\ rpc[c] = "read"
    /\ rcur[c] /= Nil
    /\ rcur[c] >= limitOf[rkey[c]]
    /\ denials' = [denials EXCEPT ![rkey[c]] = Append(@, now)]
    /\ rpc' = [rpc EXCEPT ![c] = "idle"]
    /\ UNCHANGED <<now, store, limitOf, rkey, rcur, rcalls, grants, window_start>>

\* incr(key); return True
check_rate_limit_incr(c) ==
    /\ UNCHANGED nonRate
    /\ rpc[c] = "read"
    /\ rcur[c] /= Nil
    /\ rcur[c] < limitOf[rkey[c]]
    /\ store' = StoreIncr(rkey[c])
    /\ grants' = [grants EXCEPT ![rkey[c]] = Append(@, now)]
    /\ window_start' = [window_start EXCEPT ![rkey[c]] =
            IF store[rkey[c]] = NoKey THEN now ELSE @]
    /\ rpc' = [rpc EXCEPT ![c] = "idle"]
    /\ UNCHANGED <<now, limitOf, rkey, rcur, rcalls, denials>>

\* time passes; the store drops the keys whose expiry is reached
RateTick ==
    /\ UNCHANGED nonRate
    /\ now + TickStep <= MaxTime
    /\ now' = now + TickStep
    /\ store' = StoreExpire(store, now + TickStep)
    /\ window_start' = [k \in RateKeys |->
            IF StoreExpire(store, now + TickStep)[k] = NoKey THEN Nil
            ELSE window_start[k]]
    /\ UNCHANGED <<limitOf, rpc, rkey, rcur, rcalls, grants, denials>>

RateNext ==
    \/ \E c \in RateCallers : check_rate_limit_get(c)
    \/ \E c \in RateCallers : check_rate_limit_setex(c)
    \/ \E c \in RateCallers : check_rate_limit_deny(c)
    \/ \E c \in RateCallers : check_rate_limit_incr(c)
    \/ RateTick


(***************************************************************************)
(* Browser pool: BrowserPool                                               *)
(***************************************************************************)
PoolCallers == {"a", "b"}
Closer == "closer"
MaxPoolSize == 2
MaxInstances == 3
MaxFetches == 1
MaxCloses == 1
PoolMaxTime == 1800
MAX_REQUESTS_PER_BROWSER == 50
MAX_BROWSER_AGE_SECONDS == 1800
PoolTickStep == MAX_BROWSER_AGE_SECONDS \div 2
\* the interpreter's limit on nested calls (sys.getrecursionlimit(), 1000 by
\* default), scaled down
RecursionLimit == 3

InstIds == 1..MaxInstances

\* a BrowserInstance as _create_browser makes it; stopped: browser.stop() was called
NewInstance(t) ==
    [request_count |-> 0, created_at |-> t, is_busy |-> FALSE,
     stopped |-> FALSE, made |-> FALSE]

NoAcq == [request_count |-> Nil, age |-> Nil]

\* the ways the body of fetch_page ends: page.get or page.get_content raises
\* (logged and re-raised), or content is returned; the failures of the
\* challenge wait, of page.select and of _store_cookies are caught where they
\* happen and the fetch goes on
FetchOutcomes ==
    {[kind |-> "raise", stage |-> "navigation", store_failed |-> FALSE],
     [kind |-> "raise", stage |-> "content", store_failed |-> FALSE],
     [kind |-> "return", stage |-> "done", store_failed |-> FALSE],
     [kind |-> "return", stage |-> "done", store_failed |-> TRUE]}
NoExit == [kind |-> None, stage |-> None, store_failed |-> FALSE]
\* fetch_page ends inside acquire: _get_instance raised RecursionError
AcquireRaised == [kind |-> "raise", stage |-> "acquire", store_failed |-> FALSE]

PoolParked ==
    /\ pool_size = 1
    /\ instances = <<>>
    /\ inst = [i \in InstIds |-> NewInstance(0)]
    /\ nextId = 1
    /\ lockOwner = None
    /\ lockQueue = <<>>
    /\ ppc = [c \in PoolCallers \cup {Closer} |-> "idle"]
    /\ held = [c \in PoolCallers |-> Nil]
    /\ acq = [c \in PoolCallers |-> NoAcq]
    /\ pfetches = [c \in PoolCallers |-> 0]
    /\ closes = 0
    /\ pexit = NoExit
    /\ depth = [c \in PoolCallers |-> 0]

\* The pool after construction (no session), or after earlier fetches that
\* left n idle sessions behind, each having served 1 or
\* MAX_REQUESTS_PER_BROWSER - 1 requests.
PoolInit ==
    /\ now = 0
    /\ pool_size \in 1..MaxPoolSize
    /\ \E n \in 0..pool_size :
        /\ instances = [i \in 1..n |-> i]
        /\ nextId = n + 1
        /\ \E served \in [1..n -> {1, MAX_REQUESTS_PER_BROWSER - 1}] :
            inst = [i \in InstIds |->
                      IF i <= n
                      THEN [NewInstance(0) EXCEPT !.request_count = served[i],
                                                  !.made = TRUE]
                      ELSE NewInstance(0)]
    /\ lockOwner = None
    /\ lockQueue = <<>>
    /\ ppc = [c \in PoolCallers \cup {Closer} |-> "idle"]
    /\ held = [c \in PoolCallers |-> Nil]
    /\ acq = [c \in PoolCallers |-> NoAcq]
    /\ pfetches = [c \in PoolCallers |-> 0]
    /\ closes = 0
    /\ pexit = NoExit
    /\ depth = [c \in PoolCallers |-> 0]

\* BrowserInstance.age_seconds
age_seconds(i) == now - inst[i].created_at

IsIdle_m(i) == TRUE

\* if not instance.is_busy
IsIdle(i) == ~inst[i].is_busy

NeedsReplacement_m(i) ==
    \/ inst[i].request_count > MAX_REQUESTS_PER_BROWSER
    \/ age_seconds(i) > MAX_BROWSER_AGE_SECONDS

\* the retirement check of _get_instance
NeedsReplacement(i) ==
    \/ inst[i].request_count >= MAX_REQUESTS_PER_BROWSER
    \/ age_seconds(i) >= MAX_BROWSER_AGE_SECONDS

RemoveAt(l, k) == [j \in 1..(Len(l) - 1) |-> IF j < k THEN l[j] ELSE l[j + 1]]

\* for instance in self._instances: ... with self._instances.remove(instance)
\* inside the loop: the list iterator keeps its index, so after a removal at
\* position k the next session looked at is the one that was at k + 2.
RECURSIVE Scan(_, _, _)
Scan(l, k, gone) ==
    IF k > Len(l) THEN [list |-> l, found |-> Nil, destroyed |-> gone]
    ELSE IF IsIdle(l[k])
         THEN IF NeedsReplacement(l[k])
              THEN Scan(RemoveAt(l, k), k + 1, gone \cup {l[k]})
              ELSE [list |-> l, found |-> l[k], destroyed |-> gone]
         ELSE Scan(l, k + 1, gone)

CanCreate_m(l) == Len(l) <= pool_size

\* if len(self._instances) < self.pool_size
CanCreate(l) == Len(l) < pool_size

\* asyncio.Lock.acquire: taken at once when free with nobody waiting,
\* otherwise the caller queues
LockAcquire(c, at) ==
    IF lockOwner = None /\ lockQueue = <<>>
    THEN /\ lockOwner' = c
         /\ lockQueue' = lockQueue
         /\ ppc' = [ppc EXCEPT ![c] = at]
    ELSE /\ lockQueue' = Append(lockQueue, c)
         /\ lockOwner' = lockOwner
         /\ ppc' = [ppc EXCEPT ![c] = "wait_lock"]

\* asyncio.Lock.release: the first waiter gets the lock
LockReleaseTo == IF lockQueue = <<>> THEN None ELSE Head(lockQueue)
LockRestQueue == IF lockQueue = <<>> THEN <<>> ELSE Tail(lockQueue)
Resumed(p, c, to) ==
    LET q == [p EXCEPT ![c] = to]
    IN IF lockQueue = <<>> THEN q ELSE [q EXCEPT ![Head(lockQueue)] = "locked"]

\* fetch_page -> acquire -> _get_instance: async with self._lock
fetch_page_begin(c) ==
    /\ UNCHANGED nonPool
    /\ ppc[c] = "idle"
    /\ pfetches[c] < MaxFetches
    /\ pfetches' = [pfetches EXCEPT ![c] = @ + 1]
    /\ LockAcquire(c, "locked")
    /\ UNCHANGED <<now, pool_size, instances, inst, nextId, held, acq, closes,
                   pexit, depth>>

\* the scan of _get_instance under the lock, up to its return, its await of
\* _create_browser or its await of asyncio.sleep(0.5)
get_instance_scan(c) ==
    /\ UNCHANGED nonPool
    /\ ppc[c] = "locked"
    /\ lockOwner = c
    /\ LET r == Scan(instances, 1, {})
           stoppedInst == [i \in InstIds |->
                             IF i \in r.destroyed
                             THEN [inst[i] EXCEPT !.stopped = TRUE] ELSE inst[i]]
       IN /\ instances' = r.list
          /\ IF r.found /= Nil
             THEN /\ inst' = [stoppedInst EXCEPT ![r.found].is_busy = TRUE]
                  /\ held' = [held EXCEPT ![c] = r.found]
                  /\ acq' = [acq EXCEPT ![c] =
                        [request_count |-> inst[r.found].request_count,
                         age |-> age_seconds(r.found)]]
                  /\ lockOwner' = LockReleaseTo
                  /\ lockQueue' = LockRestQueue
                  /\ ppc' = Resumed(ppc, c, "holding")
                  /\ depth' = [depth EXCEPT ![c] = 0]
             ELSE /\ inst' = stoppedInst
                  /\ UNCHANGED <<held, acq, lockOwner, lockQueue, depth>>
                  /\ ppc' = [ppc EXCEPT ![c] =
                        IF CanCreate(r.list) THEN "creating" ELSE "sleeping"]
    /\ UNCHANGED <<now, pool_size, nextId, pfetches, closes, pexit>>

\* instance = await self._create_browser(); instance.is_busy = True;
\* self._instances.append(instance); return instance
create_browser_ok(c) ==
    /\ UNCHANGED nonPool
    /\ ppc[c] = "creating"
    /\ nextId <= MaxInstances
    /\ inst' = [inst EXCEPT ![nextId] =
            [NewInstance(now) EXCEPT !.is_busy = TRUE, !.made = TRUE]]
    /\ instances' = Append(instances, nextId)
    /\ held' = [held EXCEPT ![c] = nextId]
    /\ acq' = [acq EXCEPT ![c] = [request_count |-> 0, age |-> 0]]
    /\ nextId' = nextId + 1
    /\ lockOwner' = LockReleaseTo
    /\ lockQueue' = LockRestQueue
    /\ ppc' = Resumed(ppc, c, "holding")
    /\ depth' = [depth EXCEPT ![c] = 0]
    /\ UNCHANGED <<now, pool_size, pfetches, closes, pexit>>

\* _create_browser raises: the lock is released and the fetch fails
create_browser_fail(c) ==
    /\ UNCHANGED nonPool
    /\ ppc[c] = "creating"
    /\ lockOwner' = LockReleaseTo
    /\ lockQueue' = LockRestQueue
    /\ ppc' = Resumed(ppc, c, "idle")
    /\ depth' = [depth EXCEPT ![c] = 0]
    /\ UNCHANGED <<now, pool_size, instances, inst, nextId, held, acq,
                   pfetches, closes, pexit>>

RecursionExceeded_m(d) == FALSE

\* return await self._get_instance(): every poll nests one call deeper, no
\* frame returns before the acquire ends, and the interpreter raises
\* RecursionError in place of the call that would pass its limit
RecursionExceeded(d) == d >= RecursionLimit

\* await asyncio.sleep(0.5) ends, the lock is released, and
\* return await self._get_instance() asks for the lock again, or raises
\* RecursionError, which nothing catches before fetch_page's caller
get_instance_retry(c) ==
    /\ UNCHANGED nonPool
    /\ ppc[c] = "sleeping"
    /\ IF RecursionExceeded(depth[c] + 1)
       THEN /\ lockOwner' = LockReleaseTo
            /\ lockQueue' = LockRestQueue
            /\ ppc' = Resumed(ppc, c, "idle")
            /\ depth' = [depth EXCEPT ![c] = 0]
            /\ pexit' = AcquireRaised
       ELSE /\ depth' = [depth EXCEPT ![c] =
                    IF @ < RecursionLimit THEN @ + 1 ELSE @]
            /\ pexit' = pexit
            /\ IF lockQueue = <<>>
               THEN /\ ppc' = [ppc EXCEPT ![c] = "locked"]
                    /\ UNCHANGED <<lockOwner, lockQueue>>
               ELSE /\ lockOwner' = Head(lockQueue)
                    /\ lockQueue' = Append(Tail(lockQueue), c)
                    /\ ppc' = [ppc EXCEPT ![c] = "wait_lock",
                                          ![Head(lockQueue)] = "locked"]
    /\ UNCHANGED <<now, pool_size, instances, inst, nextId, held, acq,
                   pfetches, closes>>

\* _release_instance, from the finally of acquire: the fetch returned or raised
ReleasesOn_m(o) == o.kind = "return"

\* acquire(): try: yield instance / finally: await self._release_instance(instance)
ReleasesOn(o) == TRUE

\* the body of fetch_page ends with outcome o and the context manager exits
release_instance(c) ==
    /\ UNCHANGED nonPool
    /\ ppc[c] = "holding"
    /\ \E o \in FetchOutcomes :
        /\ pexit' = o
        /\ inst' = IF ReleasesOn(o)
                   THEN [inst EXCEPT ![held[c]].is_busy = FALSE,
                                     ![held[c]].request_count = @ + 1]
                   ELSE inst
    /\ held' = [held EXCEPT ![c] = Nil]
    /\ acq' = [acq EXCEPT ![c] = NoAcq]
    /\ ppc' = [ppc EXCEPT ![c] = "idle"]
    /\ UNCHANGED <<now, pool_size, instances, nextId, lockOwner, lockQueue,
                   pfetches, closes, depth>>

\* close(): async with self._lock
close_begin ==
    /\ UNCHANGED nonPool
    /\ ppc[Closer] = "idle"
    /\ closes < MaxCloses
    /\ closes' = closes + 1
    /\ LockAcquire(Closer, "locked")
    /\ UNCHANGED <<now, pool_size, instances, inst, nextId, held, acq, pfetches,
                   pexit, depth>>

DestroyCatches_m == FALSE

\* _destroy_browser: try: instance.browser.stop() / except Exception: warning
DestroyCatches == TRUE

\* the positions close() gets to when browser.stop() raises for the sessions
\* in fails: all of them when _destroy_browser swallows the exception, else
\* those up to the first session whose stop() raises
CloseReaches(l, fails) ==
    {k \in 1..Len(l) :
        DestroyCatches \/ \A j \in 1..(k - 1) : l[j] \notin fails}

\* close() ends by its return, not by an exception of a destroy
CloseReturns(l, fails) ==
    DestroyCatches \/ \A k \in 1..Len(l) : l[k] \notin fails

\* for instance in self._instances: _destroy_browser(instance);
\* self._instances.clear(); browser.stop() raises for the sessions in fails
close_destroy(fails) ==
    /\ UNCHANGED nonPool
    /\ ppc[Closer] = "locked"
    /\ lockOwner = Closer
    /\ inst' = [i \in InstIds |->
            IF \E k \in CloseReaches(instances, fails) : instances[k] = i
            THEN [inst[i] EXCEPT !.stopped = TRUE] ELSE inst[i]]
    /\ instances' = IF CloseReturns(instances, fails) THEN <<>> ELSE instances
    /\ lockOwner' = LockReleaseTo
    /\ lockQueue' = LockRestQueue
    /\ ppc' = Resumed(ppc, Closer, "idle")
    /\ UNCHANGED <<now, pool_size, nextId, held, acq, pfetches, closes, pexit,
                   depth>>

PoolTick ==
    /\ UNCHANGED nonPool
    /\ now + PoolTickStep <= PoolMaxTime
    /\ now' = now + PoolTickStep
    /\ UNCHANGED poolVars

\* BrowserPool.active_count
active_count == Len(instances)

\* BrowserPool.busy_count
busy_count == Cardinality({k \in 1..Len(instances) : inst[instances[k]].is_busy})

PoolNext ==
    \/ \E c \in PoolCallers : fetch_page_begin(c)
    \/ \E c \in PoolCallers : get_instance_scan(c)
    \/ \E c \in PoolCallers : create_browser_ok(c)
    \/ \E c \in PoolCallers : create_browser_fail(c)
    \/ \E c \in PoolCallers : get_instance_retry(c)
    \/ \E c \in PoolCallers : release_instance(c)
    \/ close_begin
    \/ \E fails \in SUBSET {instances[k] : k \in 1..Len(instances)} :
            close_destroy(fails)
    \/ PoolTick

\* the fetches of a pool that nobody closes, over a time in which no session
\* grows older
AcquireNext ==
    \/ \E c \in PoolCallers : fetch_page_begin(c)
    \/ \E c \in PoolCallers : get_instance_scan(c)
    \/ \E c \in PoolCallers : create_browser_ok(c)
    \/ \E c \in PoolCallers : create_browser_fail(c)
    \/ \E c \in PoolCallers : get_instance_retry(c)
    \/ \E c \in PoolCallers : release_instance(c)


(***************************************************************************)
(* Adapter registry: get_scraper_for_url (scrapers/__init__.py)            *)
(***************************************************************************)
\* SCRAPER_REGISTRY: domain -> SITE_NAME of the scraper class
SCRAPER_REGISTRY ==
    [d \in {"mgeko.cc", "www.mgeko.cc", "asuracomic.net", "www.asuracomic.net",
            "asura.nacm.xyz", "manhwatop.com", "www.manhwatop.com"} |->
        IF d \in {"mgeko.cc", "www.mgeko.cc"} THEN "mgeko"
        ELSE IF d \in {"manhwatop.com", "www.manhwatop.com"} THEN "manhwatop"
        ELSE "asura"]

BROWSER_REQUIRED_DOMAINS ==
    {"asuracomic.net", "www.asuracomic.net", "asura.nacm.xyz", "manhwatop.com",
     "www.manhwatop.com"}

\* URLs as urlparse splits them: scheme://[userinfo@]host[:port]path
UrlSchemes == {"https", "http"}
UrlUserinfos == {"", "reader"}
UrlHosts == {"www.mgeko.cc", "WWW.MGEKO.CC", "mgeko.cc", "asuracomic.net",
             "AsuraComic.net", "asura.nacm.xyz", "www.manhwatop.com",
             "example.com", "mgeko.cc.example.com"}
UrlPorts == {"", "443"}
UrlPaths == {"/manga/test/", "/series/test"}
RegUrls == [scheme : UrlSchemes, userinfo : UrlUserinfos, host : UrlHosts,
            port : UrlPorts, path : UrlPaths]

\* str.lower() on the host names used here
Lower(h) ==
    CASE h = "WWW.MGEKO.CC" -> "www.mgeko.cc"
      [] h = "AsuraComic.net" -> "asuracomic.net"
      [] OTHER -> h

\* urlparse(url).netloc: everything between "//" and the path, with the
\* userinfo and the port when the URL has them
Netloc(u) ==
    (IF u.userinfo = "" THEN "" ELSE u.userinfo \o "@") \o u.host
        \o (IF u.port = "" THEN "" ELSE ":" \o u.port)

\* parsed.netloc.lower(); the userinfo and the port here are lower case already
LowerNetloc(u) == Netloc([u EXCEPT !.host = Lower(u.host)])

\* urlparse(url).hostname: the host name alone, lower-cased
Hostname(u) == Lower(u.host)

NoAdapter == [site |-> None, requires_browser |-> FALSE]

get_scraper_for_url(u) ==
    LET domain == LowerNetloc(u)
    IN IF domain \in DOMAIN SCRAPER_REGISTRY
       THEN [site |-> SCRAPER_REGISTRY[domain],
             requires_browser |-> (domain \in BROWSER_REQUIRED_DOMAINS)]
       ELSE NoAdapter

NoRegResult == [called |-> FALSE, adapter |-> NoAdapter]

RegParked ==
    /\ reg_url = [scheme |-> "https", userinfo |-> "", host |-> "example.com",
                  port |-> "", path |-> "/series/test"]
    /\ reg_result = NoRegResult

RegInit ==
    /\ now = 0
    /\ reg_url \in RegUrls
    /\ reg_result = NoRegResult

get_scraper_for_url_call ==
    /\ UNCHANGED nonReg
    /\ ~reg_result.called
    /\ reg_result' = [called |-> TRUE, adapter |-> get_scraper_for_url(reg_url)]
    /\ UNCHANGED reg_url

RegNext == get_scraper_for_url_call

(***************************************************************************)
(* Job lifecycle: the tasks scrape_series / scrape_chapter with a job id,  *)
(* the task queue's retry, and the API operations cancel_job / retry_job   *)
(***************************************************************************)
JobIds == {1, 2}
MaxTid == 3
\* @shared_task(bind=True, max_retries=3, ...)
TASK_MAX_RETRIES == 3
\* max_retries: Mapped[int] = mapped_column(default=3)
JOB_MAX_RETRIES == 3

\* the URLs units of work are dispatched with: one of a registered site, one
\* of a site no adapter is registered for
JobUrls ==
    {[scheme |-> "https", userinfo |-> "", host |-> h, port |-> "",
      path |-> "/manga/test/"] : h \in {"mgeko.cc", "example.com"}}

\* the job types the routes and check_all_series_updates create
AllJobTypes == {"scrape_series", "scrape_chapter", "download_images", "check_updates"}

\* the task an enqueue operation dispatches for a job of the type:
\* scrape_series.delay(url, job.id) (add_series, refresh_series,
\* check_all_series_updates), scrape_chapter.delay(chapter_id, job.id),
\* download_images.delay(chapter_id)
TaskOf(type) ==
    CASE type \in {"scrape_series", "check_updates"} -> "scrape_series"
      [] type = "scrape_chapter" -> "scrape_chapter"
      [] type = "download_images" -> "download_images"

\* whether that task is called with the job's id: download_images has no
\* job_id parameter
DispatchCarriesJob(type) == TaskOf(type) /= "download_images"

\* whether retry_job dispatches a task with the job's id: SCRAPE_SERIES jobs
\* have input_data["url"]; SCRAPE_CHAPTER jobs have chapter_id; CHECK_UPDATES
\* jobs are looked up for a chapter_id, which they do not have;
\* DOWNLOAD_IMAGES jobs get download_images.delay(chapter_id), without the id
RetryDispatchesJob(type) == type \in {"scrape_series", "scrape_chapter"}

\* a Job row as add_series / scrape_chapter_images create it, with the URL its
\* unit of work is dispatched with (source_url); started_at,
\* completed_at, error_message, error_traceback and result_data are kept as
\* set (TRUE) or None (FALSE); committed tells whether the transaction that
\* inserted the row has been committed, that is whether other sessions see it
NewJob(type, url) ==
    [job_type |-> type, source_url |-> url,
     status |-> "pending", celery_task_id |-> Nil,
     started_at |-> FALSE, completed_at |-> FALSE,
     retry_count |-> 0, max_retries |-> JOB_MAX_RETRIES,
     error_message |-> FALSE, error_traceback |-> FALSE,
     result_data |-> FALSE, has_target |-> RetryDispatchesJob(type),
     committed |-> TRUE]

NoOp == <<"none", 0>>

JobParked ==
    /\ jobs = [j \in JobIds |-> NewJob("scrape_series", CHOOSE u \in JobUrls : TRUE)]
    /\ queue = {}
    /\ execs = {}
    /\ revoked = {}
    /\ nextTid = 1
    /\ execCount = [j \in JobIds |-> 0]
    /\ raisedCount = [j \in JobIds |-> 0]
    /\ succeeded = [j \in JobIds |-> FALSE]
    /\ jop = NoOp

\* every job was created pending by an enqueue operation, which dispatched
\* one unit of work with the job's id (task j for job j)
JobInit ==
    /\ now = 0
    /\ jobs \in [JobIds -> {NewJob(t, u) : t \in {"scrape_series", "scrape_chapter"},
                                         u \in JobUrls}]
    /\ queue = {[tid |-> j, retries |-> 0, job |-> j] : j \in JobIds}
    /\ execs = {}
    /\ revoked = {}
    /\ nextTid = Cardinality(JobIds) + 1
    /\ execCount = [j \in JobIds |-> 0]
    /\ raisedCount = [j \in JobIds |-> 0]
    /\ succeeded = [j \in JobIds |-> FALSE]
    /\ jop = NoOp

\* job 1 as above; job 2 is an older job that completed
JobInitApi ==
    /\ now = 0
    /\ \E t \in {"scrape_series", "scrape_chapter"}, u \in JobUrls :
        jobs = [j \in JobIds |->
                  IF j = 1 THEN NewJob(t, u)
                  ELSE [NewJob(t, CHOOSE v \in JobUrls :
                                      get_scraper_for_url(v) /= NoAdapter) EXCEPT !.status = "completed", !.celery_task_id = j,
                                         !.started_at = TRUE, !.completed_at = TRUE,
                                         !.result_data = TRUE]]
    /\ queue = {[tid |-> 1, retries |-> 0, job |-> 1]}
    /\ execs = {}
    /\ revoked = {}
    /\ nextTid = Cardinality(JobIds) + 1
    /\ execCount = [j \in JobIds |-> IF j = 1 THEN 0 ELSE 1]
    /\ raisedCount = [j \in JobIds |-> 0]
    /\ succeeded = [j \in JobIds |-> j /= 1]
    /\ jop = NoOp

\* job 1 as above; job 2 completed long ago, its task is none of those that
\* are dispatched from now on (handle 0)
JobInitRetry ==
    /\ now = 0
    /\ \E t \in {"scrape_series", "scrape_chapter"} :
        jobs = [j \in JobIds |->
                  LET u == CHOOSE v \in JobUrls : get_scraper_for_url(v) /= NoAdapter
                  IN IF j = 1 THEN NewJob(t, u)
                     ELSE [NewJob(t, u) EXCEPT !.status = "completed",
                                               !.celery_task_id = 0,
                                               !.started_at = TRUE,
                                               !.completed_at = TRUE,
                                               !.result_data = TRUE]]
    /\ queue = {[tid |-> 1, retries |-> 0, job |-> 1]}
    /\ execs = {}
    /\ revoked = {}
    /\ nextTid = 2
    /\ execCount = [j \in JobIds |-> IF j = 1 THEN 0 ELSE 1]
    /\ raisedCount = [j \in JobIds |-> 0]
    /\ succeeded = [j \in JobIds |-> j /= 1]
    /\ jop = NoOp

\* every job was created pending by an enqueue operation of its type, which
\* dispatched the task of that type (task j for job j)
JobInitTypes ==
    /\ now = 0
    /\ jobs \in [JobIds -> {NewJob(t, u) : t \in AllJobTypes, u \in JobUrls}]
    /\ queue = {[tid |-> j, retries |-> 0, job |-> j] :
                    j \in {i \in JobIds : DispatchCarriesJob(jobs[i].job_type)}}
    /\ execs = {}
    /\ revoked = {}
    /\ nextTid = Cardinality(JobIds) + 1
    /\ execCount = [j \in JobIds |-> 0]
    /\ raisedCount = [j \in JobIds |-> 0]
    /\ succeeded = [j \in JobIds |-> FALSE]
    /\ jop = NoOp

\* add_series has flushed the new job (db.flush()) and dispatched its unit of
\* work (scrape_series.delay(url, job.id)); the commit of get_db, which runs
\* after the handler returned, is still to come for job 1
JobInitEnqueue ==
    /\ now = 0
    /\ \E u \in JobUrls :
        jobs = [j \in JobIds |->
                  IF j = 1
                  THEN [NewJob("scrape_series", u) EXCEPT !.committed = FALSE]
                  ELSE NewJob("scrape_series", u)]
    /\ queue = {[tid |-> j, retries |-> 0, job |-> j] : j \in JobIds}
    /\ execs = {}
    /\ revoked = {}
    /\ nextTid = Cardinality(JobIds) + 1
    /\ execCount = [j \in JobIds |-> 0]
    /\ raisedCount = [j \in JobIds |-> 0]
    /\ succeeded = [j \in JobIds |-> FALSE]
    /\ jop = NoOp

\* get_db: await session.commit() once the request handler has returned
enqueue_commit(j) ==
    /\ UNCHANGED nonJob
    /\ ~jobs[j].committed
    /\ jobs' = [jobs EXCEPT ![j].committed = TRUE]
    /\ jop' = <<"enqueue_commit", j>>
    /\ UNCHANGED <<queue, execs, revoked, nextTid, execCount, raisedCount, succeeded>>

is_finished_m(j) == jobs[j].status \in {"completed", "failed"}
\* Job.is_finished
is_finished(j) == jobs[j].status \in {"completed", "failed", "cancelled"}

ShouldRetry_m(retries) == retries < 1

\* Task.retry: the task is sent again while request.retries < max_retries,
\* otherwise the exception is raised for good
ShouldRetry(retries) == retries < TASK_MAX_RETRIES

\* a worker takes message m: job = db.get(Job, job_id), which is None when
\* the row is not visible to the worker's session; if job: job.status = RUNNING;
\* job.started_at = now; job.celery_task_id = self.request.id; db.commit()
exec_start(m) ==
    /\ UNCHANGED nonJob
    /\ m \in queue
    /\ m.tid \notin revoked
    /\ queue' = queue \ {m}
    /\ execs' = execs \cup {[tid |-> m.tid, retries |-> m.retries, job |-> m.job,
                             rc |-> jobs[m.job].retry_count,
                             loaded |-> jobs[m.job].committed]}
    /\ jobs' = IF jobs[m.job].committed
               THEN [jobs EXCEPT ![m.job].status = "running",
                                 ![m.job].started_at = TRUE,
                                 ![m.job].celery_task_id = m.tid]
               ELSE jobs
    /\ execCount' = [execCount EXCEPT ![m.job] = @ + 1]
    /\ jop' = <<"exec_start", m.job>>
    /\ UNCHANGED <<revoked, nextTid, raisedCount, succeeded>>

\* scraper = get_scraper_for_url(url); if not scraper: raise ValueError(...)
HasScraper(j) == get_scraper_for_url(jobs[j].source_url) /= NoAdapter

\* the unit of work returns (it found a scraper): db.commit() of the scraped data,
\* then job.status = COMPLETED; job.completed_at = now; job.result_data = {...};
\* db.commit()
exec_succeed(e) ==
    /\ UNCHANGED nonJob
    /\ e \in execs
    /\ HasScraper(e.job)
    /\ execs' = execs \ {e}
    /\ jobs' = IF e.loaded
               THEN [jobs EXCEPT ![e.job].status = "completed",
                                 ![e.job].completed_at = TRUE,
                                 ![e.job].result_data = TRUE]
               ELSE jobs
    /\ succeeded' = [succeeded EXCEPT ![e.job] = TRUE]
    /\ jop' = <<"exec_succeed", e.job>>
    /\ UNCHANGED <<queue, revoked, nextTid, execCount, raisedCount>>

\* the unit of work raises (the ValueError of a missing scraper, or any error
\* of the scraper or the database): job.status = FAILED; job.error_message = str(exc);
\* job.error_traceback (scrape_series only); job.retry_count += 1 on the row as
\* this execution loaded it; db.commit(); raise self.retry(exc=exc)
exec_fail(e) ==
    /\ UNCHANGED nonJob
    /\ e \in execs
    /\ execs' = execs \ {e}
    /\ jobs' = IF e.loaded
               THEN [jobs EXCEPT ![e.job].status = "failed",
                                 ![e.job].error_message = TRUE,
                                 ![e.job].error_traceback =
                                     (@ \/ TaskOf(jobs[e.job].job_type) = "scrape_series"),
                                 ![e.job].retry_count = e.rc + 1]
               ELSE jobs
    /\ queue' = IF ShouldRetry(e.retries)
                THEN queue \cup {[tid |-> e.tid, retries |-> e.retries + 1,
                                  job |-> e.job]}
                ELSE queue
    /\ raisedCount' = [raisedCount EXCEPT ![e.job] = @ + 1]
    /\ jop' = <<"exec_fail", e.job>>
    /\ UNCHANGED <<revoked, nextTid, execCount, succeeded>>

\* cancel_job: 409 when job.is_finished; otherwise revoke the recorded task
\* (if any), job.status = CANCELLED, job.completed_at = now
\* if job.celery_task_id: celery_app.control.revoke(job.celery_task_id, terminate=True)
RevokeCalls(j) ==
    IF jobs[j].celery_task_id /= Nil THEN <<jobs[j].celery_task_id>> ELSE <<>>

cancel_job(j) ==
    /\ UNCHANGED nonJob
    /\ IF is_finished(j)
       THEN /\ jop' = <<"cancel_job_409", j>>
            /\ UNCHANGED <<jobs, revoked>>
       ELSE /\ revoked' = revoked \cup {RevokeCalls(j)[i] : i \in 1..Len(RevokeCalls(j))}
            /\ jobs' = [jobs EXCEPT ![j].status = "cancelled", ![j].completed_at = TRUE]
            /\ jop' = <<"cancel_job", j, RevokeCalls(j)>>
    /\ UNCHANGED <<queue, execs, nextTid, execCount, raisedCount, succeeded>>

\* retry_job: 409 unless job.status == FAILED; otherwise reset the job to
\* PENDING, clear the error fields and timestamps, and .delay() a new task
\* when the job's type has its target (url / chapter_id)
RetryAccepted_m(j) == jobs[j].status \in {"failed", "completed", "cancelled"}
\* if job.status != JobStatus.FAILED: raise HTTPException(status_code=409, ...)
RetryAccepted(j) == jobs[j].status = "failed"

retry_job(j) ==
    /\ UNCHANGED nonJob
    /\ IF RetryAccepted(j)
       THEN /\ nextTid <= MaxTid
            /\ jobs' = [jobs EXCEPT ![j].status = "pending",
                                    ![j].error_message = FALSE,
                                    ![j].error_traceback = FALSE,
                                    ![j].started_at = FALSE,
                                    ![j].completed_at = FALSE]
            /\ IF jobs[j].has_target
               THEN /\ queue' = queue \cup {[tid |-> nextTid, retries |-> 0, job |-> j]}
                    /\ nextTid' = nextTid + 1
               ELSE UNCHANGED <<queue, nextTid>>
            /\ jop' = <<"retry_job", j>>
       ELSE /\ jop' = <<"retry_job_409", j>>
            /\ UNCHANGED <<jobs, queue, nextTid>>
    /\ UNCHANGED <<execs, revoked, execCount, raisedCount, succeeded>>

\* control.revoke(task_id, terminate=True) reaches the worker: a revoked
\* message still queued is dropped when a worker receives it
revoke_discard(m) ==
    /\ UNCHANGED nonJob
    /\ m \in queue
    /\ m.tid \in revoked
    /\ queue' = queue \ {m}
    /\ jop' = <<"revoke_discard", m.job>>
    /\ UNCHANGED <<jobs, execs, revoked, nextTid, execCount, raisedCount, succeeded>>

\* ... and an execution in flight is terminated, at whatever point the
\* signal reaches it (it may as well finish first)
revoke_terminate(e) ==
    /\ UNCHANGED nonJob
    /\ e \in execs
    /\ e.tid \in revoked
    /\ execs' = execs \ {e}
    /\ jop' = <<"revoke_terminate", e.job>>
    /\ UNCHANGED <<jobs, queue, revoked, nextTid, execCount, raisedCount, succeeded>>

\* the worker alone: units of work run, raise or return, and are retried by the queue
WorkerNext ==
    \/ \E m \in queue : exec_start(m)
    \/ \E e \in execs : exec_succeed(e)
    \/ \E e \in execs : exec_fail(e)

\* the worker next to the commit of the request that enqueued the job
EnqueueNext ==
    \/ \E m \in queue : exec_start(m)
    \/ \E e \in execs : exec_succeed(e)
    \/ \E e \in execs : exec_fail(e)
    \/ \E j \in JobIds : enqueue_commit(j)

\* the worker and the retry requests of an operator
RetryNext ==
    \/ \E m \in queue : exec_start(m)
    \/ \E e \in execs : exec_succeed(e)
    \/ \E e \in execs : exec_fail(e)
    \/ \E j \in JobIds : retry_job(j)

\* the worker and the cancel requests of an operator
CancelNext ==
    \/ \E m \in queue : exec_start(m)
    \/ \E e \in execs : exec_succeed(e)
    \/ \E e \in execs : exec_fail(e)
    \/ \E j \in JobIds : cancel_job(j)
    \/ \E m \in queue : revoke_discard(m)
    \/ \E e \in execs : revoke_terminate(e)

\* the worker and the API operations on jobs
JobNext ==
    \/ \E m \in queue : exec_start(m)
    \/ \E e \in execs : exec_succeed(e)
    \/ \E e \in execs : exec_fail(e)
    \/ \E j \in JobIds : cancel_job(j)
    \/ \E j \in JobIds : retry_job(j)
    \/ \E m \in queue : revoke_discard(m)
    \/ \E e \in execs : revoke_terminate(e)


(***************************************************************************)
(* Fetch strategy: BaseScraper.fetch_page                                  *)
(***************************************************************************)
Urls == {"https://www.mgeko.cc/manga/a", "https://www.mgeko.cc/manga/b"}
WaitSelectors == {None, "div.reader"}
Statuses == {200, 403, 404, 503}
Bodies == {"<title>Just a moment...</title>", "<html>chapters</html>",
           "Service Unavailable"}
MaxDenials == 1
\* stop=stop_after_attempt(3)
STOP_AFTER_ATTEMPT == 3

\* the indicators of _is_cloudflare_challenge
Indicators == {"just a moment", "checking your browser", "cf-browser-verification",
               "challenge-platform", "cloudflare", "_cf_chl"}

\* the indicators found in response.text.lower()
IndicatorsIn(text) ==
    CASE text = "<title>Just a moment...</title>" -> {"just a moment"}
      [] text = "<html>chapters</html>" -> {}
      [] text = "Service Unavailable" -> {}

\* BaseScraper._is_cloudflare_challenge
is_cloudflare_challenge(r) ==
    /\ r.status \in {403, 503}
    /\ IndicatorsIn(r.text) \cap Indicators /= {}

\* what one attempt of _fetch_http does with the response it got: the
\* exception it raises, or None when it returns response.text
AttemptRaises(r) ==
    IF is_cloudflare_challenge(r) THEN "CloudflareBlockedError"
    ELSE IF r.status \notin 200..299 THEN "HTTPStatusError"
    ELSE None

\* tenacity's @retry without reraise=True: once the attempts are used up
\* the call raises tenacity.RetryError, which wraps the last exception
RetryRaises_m(exc) == exc
RetryRaises(exc) == "RetryError"

\* the except clause of fetch_page: which exceptions of _fetch_http lead to
\* the browser fallback
FallsBack(exc, status) ==
    /\ exc \in {"CloudflareBlockedError", "HTTPStatusError"}
    /\ ~(exc = "HTTPStatusError" /\ status \notin {403, 503})

NoResult == [kind |-> None, src |-> None, value |-> None]

FetchParked ==
    /\ fpc = "done"
    /\ freq = [url |-> None, force_browser |-> FALSE, wait_selector |-> None,
               requires_browser |-> FALSE]
    /\ attempt = 0
    /\ responses = <<>>
    /\ browser_calls = <<>>
    /\ fresult = NoResult
    /\ fdenials = 0

FetchInit ==
    /\ now = 0
    /\ fpc = "start"
    /\ freq \in [url : Urls, force_browser : BOOLEAN,
                 wait_selector : WaitSelectors, requires_browser : BOOLEAN]
    /\ attempt = 0
    /\ responses = <<>>
    /\ browser_calls = <<>>
    /\ fresult = NoResult
    /\ fdenials = 0

\* what BrowserPool.fetch_page may return: the rendered page, or a page still
\* showing the challenge (the challenge wait gives up silently)
PoolContents == {"<html>rendered</html>", "<title>Just a moment...</title>"}

\* if force_browser or self.requires_browser
BrowserOnly_m(req) == req.force_browser
BrowserOnly(req) == req.force_browser \/ req.requires_browser

\* return await self._browser_pool.fetch_page(...): the content as the pool gave it
ReturnedContent(c) == c

\* if force_browser or self.requires_browser: _fetch_browser, else _fetch_http
fetch_page_entry ==
    /\ UNCHANGED nonFetch
    /\ fpc = "start"
    /\ IF BrowserOnly(freq)
       THEN fpc' = "rate_browser" /\ attempt' = attempt
       ELSE fpc' = "rate_http" /\ attempt' = 1
    /\ UNCHANGED <<freq, responses, browser_calls, fresult, fdenials>>

\* _rate_limit: check_rate_limit returned False, sleep(1) and ask again
rate_limit_denied ==
    /\ UNCHANGED nonFetch
    /\ fpc \in {"rate_http", "rate_browser"}
    /\ fdenials < MaxDenials
    /\ fdenials' = fdenials + 1
    /\ UNCHANGED <<fpc, freq, attempt, responses, browser_calls, fresult>>

\* _rate_limit: check_rate_limit returned True
rate_limit_allowed ==
    /\ UNCHANGED nonFetch
    /\ fpc \in {"rate_http", "rate_browser"}
    /\ fpc' = IF fpc = "rate_http" THEN "http_get" ELSE "browser"
    /\ UNCHANGED <<freq, attempt, responses, browser_calls, fresult, fdenials>>

RetryEntry_m == "http_get"

\* @retry decorates the whole of _fetch_http: another attempt runs it from its
\* first statement, await self._rate_limit()
RetryEntry == "rate_http"

\* how fetch_page goes on after attempt number n of _fetch_http raised exc
\* (the last response had the given status)
AfterAttemptRaised(n, exc, status) ==
    IF n < STOP_AFTER_ATTEMPT THEN RetryEntry
    ELSE IF FallsBack(RetryRaises(exc), status) THEN "rate_browser"
    ELSE "done"

\* response = await client.get(url), then the challenge check and raise_for_status
fetch_http_response(r) ==
    /\ UNCHANGED nonFetch
    /\ fpc = "http_get"
    /\ responses' = Append(responses, r)
    /\ LET exc == AttemptRaises(r)
       IN IF exc = None
          THEN /\ fpc' = "done"
               /\ fresult' = [kind |-> "content", src |-> "http", value |-> r.text]
               /\ attempt' = attempt
          ELSE /\ fpc' = AfterAttemptRaised(attempt, exc, r.status)
               /\ attempt' = IF attempt < STOP_AFTER_ATTEMPT THEN attempt + 1 ELSE attempt
               /\ fresult' = IF fpc' = "done"
                             THEN [kind |-> "error", src |-> "http",
                                   value |-> RetryRaises(exc)]
                             ELSE fresult
    /\ UNCHANGED <<freq, browser_calls, fdenials>>

\* self._browser_pool.fetch_page(url, wait_selector=wait_selector) returns content
fetch_browser_ok(c) ==
    /\ UNCHANGED nonFetch
    /\ fpc = "browser"
    /\ browser_calls' = Append(browser_calls,
            [url |-> freq.url, wait_selector |-> freq.wait_selector, content |-> c])
    /\ fresult' = [kind |-> "content", src |-> "browser", value |-> ReturnedContent(c)]
    /\ fpc' = "done"
    /\ UNCHANGED <<freq, attempt, responses, fdenials>>

\* ... or raises
fetch_browser_raise ==
    /\ UNCHANGED nonFetch
    /\ fpc = "browser"
    /\ browser_calls' = Append(browser_calls,
            [url |-> freq.url, wait_selector |-> freq.wait_selector, content |-> None])
    /\ fresult' = [kind |-> "error", src |-> "browser", value |-> "Exception"]
    /\ fpc' = "done"
    /\ UNCHANGED <<freq, attempt, responses, fdenials>>

FetchNext ==
    \/ fetch_page_entry
    \/ rate_limit_denied
    \/ rate_limit_allowed
    \/ \E r \in [status : Statuses, text : Bodies] : fetch_http_response(r)
    \/ \E c \in PoolContents : fetch_browser_ok(c)
    \/ fetch_browser_raise

(***************************************************************************)
(* Series merge: the database part of the task scrape_series               *)
(***************************************************************************)
SourceIds == {"s1", "s2"}
\* chapter numbers in tenths: 10 is chapter 1, 35 is chapter 3.5
ChapterNumbers == {10, 20, 35}
ChapterTitles == {"a"}
MaxChapters == 2
MaxRuns == 2

ChapterData == [chapter_number : ChapterNumbers, title : ChapterTitles]
AdapterOutputs == UNION {[1..n -> ChapterData] : n \in 0..MaxChapters}
\* series_data["title"], a scalar field of the adapter output; None: null
SeriesTitles == {None, "t"}
\* adapter outputs that leave the series title out
NullTitles == {None}
\* adapter outputs whose chapters 1 and 2 come with one of two titles
RetitledOutputs ==
    UNION {[1..n -> [chapter_number : {10, 20}, title : {"a", "b"}]] :
              n \in 0..MaxChapters}

NoSeries == [present |-> FALSE, total_chapters |-> 0, latest_chapter |-> Nil,
             last_checked_at |-> Nil, title |-> None]
NoLast == [ran |-> FALSE, chapters |-> <<>>]
NoRun == [source_id |-> None, chapters |-> <<>>, title |-> None]
NoMergeResult ==
    [outcome |-> None, source_id |-> None, chapters_added |-> 0, repeat |-> FALSE,
     chapters_before |-> {}, total_before |-> 0, chapters |-> <<>>,
     latest_before |-> Nil, run |-> 0, series_before |-> NoSeries, title |-> None]

MergeParked ==
    /\ db_series = [sid \in SourceIds |-> NoSeries]
    /\ db_chapters = {}
    /\ mpc = "idle"
    /\ mrun = NoRun
    /\ mlast = [sid \in SourceIds |-> NoLast]
    /\ mres = NoMergeResult
    /\ mruns = 0

MergeInit == now = 0 /\ MergeParked

\* a database that holds series s1 with chapter 1, whose images have been
\* scraped already
UpsertInit ==
    /\ now = 0
    /\ db_series = [sid \in SourceIds |->
            IF sid = "s1"
            THEN [present |-> TRUE, total_chapters |-> 1, latest_chapter |-> 10,
                  last_checked_at |-> 0, title |-> "old"]
            ELSE NoSeries]
    /\ db_chapters = {[series_id |-> "s1", chapter_number |-> 10, title |-> "a",
                       is_scraped |-> TRUE]}
    /\ mpc = "idle"
    /\ mrun = NoRun
    /\ mlast = [sid \in SourceIds |-> NoLast]
    /\ mres = NoMergeResult
    /\ mruns = 0

\* select(Chapter).where(series_id == series.id, chapter_number == n)
\* .scalar_one_or_none() is None: the session does not autoflush, so the
\* query sees the rows of the database, not the chapters this run has added
NoExisting(sid, n) ==
    ~ \E row \in db_chapters : row.series_id = sid /\ row.chapter_number = n

\* the chapters the loop adds to the session, in order
RECURSIVE ChaptersToAdd(_, _)
ChaptersToAdd(sid, chs) ==
    IF chs = <<>> THEN <<>>
    ELSE IF NoExisting(sid, Head(chs).chapter_number)
         THEN <<Head(chs)>> \o ChaptersToAdd(sid, Tail(chs))
         ELSE ChaptersToAdd(sid, Tail(chs))

ChaptersAdded_m(sid, chs) == Len(chs)

\* chapters_added += 1 for each chapter added
ChaptersAdded(sid, chs) == Len(ChaptersToAdd(sid, chs))

\* UniqueConstraint("series_id", "chapter_number"): the commit fails when two
\* of the added chapters have the same number
ViolatesUnique(added) ==
    \E i, k \in 1..Len(added) : i < k /\ added[i].chapter_number = added[k].chapter_number

MaxChapterNumber_m(chs) == chs[Len(chs)].chapter_number

\* max(c["chapter_number"] for c in chapters)
MaxChapterNumber(chs) ==
    CHOOSE n \in {chs[i].chapter_number : i \in 1..Len(chs)} :
        \A i \in 1..Len(chs) : chs[i].chapter_number <= n

\* series.total_chapters = len(chapters)
TotalChapters(chs) == Len(chs)

ChaptersOf(sid) == {row \in db_chapters : row.series_id = sid}

\* what a run that raised leaves as its result, with the rows it found
RaisedResult(sid) ==
    [NoMergeResult EXCEPT !.outcome = "raised", !.source_id = sid,
                          !.chapters_before = ChaptersOf(sid),
                          !.series_before = db_series[sid],
                          !.run = mruns]

\* the first k entries of a sequence
Prefix(chs, k) == [i \in 1..k |-> chs[i]]

\* the except block: `if job: job.status = FAILED; ...; db.commit()`, then
\* db.rollback(): with a job the commit comes first and writes what the
\* session holds, without a job the session is rolled back
ExceptCommits(has_job) == has_job

\* series_data = run_async(scraper.scrape_series(series_url)) returns
scrape_series_scraped(sid, chs, title) ==
    /\ UNCHANGED nonMerge
    /\ mpc = "idle"
    /\ mruns < MaxRuns
    /\ mruns' = mruns + 1
    /\ mrun' = [source_id |-> sid, chapters |-> chs, title |-> title]
    /\ mpc' = "merge"
    /\ UNCHANGED <<db_series, db_chapters, mlast, mres>>

\* ... or raises: nothing is written
scrape_series_raised(sid) ==
    /\ UNCHANGED nonMerge
    /\ mpc = "idle"
    /\ mruns < MaxRuns
    /\ mruns' = mruns + 1
    /\ mres' = RaisedResult(sid)
    /\ UNCHANGED <<db_series, db_chapters, mpc, mrun, mlast>>

Overwritten_m(old, new) == new

\* Series(**series_data) for a new series; for a stored one
\* `if key != "chapters" and value is not None: setattr(series, key, value)`
Overwritten(old, new) == IF new /= None THEN new ELSE old

\* Chapter(series_id=series.id, **ch_data): is_scraped has its default
NewChapters(sid, added) ==
    {[series_id |-> sid, chapter_number |-> added[i].chapter_number,
      title |-> added[i].title, is_scraped |-> FALSE] : i \in 1..Len(added)}

\* the upsert of the series, the loop over the chapters, the stamps and db.commit()
scrape_series_merge ==
    /\ UNCHANGED nonMerge
    /\ mpc = "merge"
    /\ mpc' = "idle"
    /\ mrun' = NoRun
    /\ LET sid == mrun.source_id
           chs == mrun.chapters
           added == ChaptersToAdd(sid, chs)
       IN IF ViolatesUnique(added)
          THEN \* IntegrityError: db.rollback()
               /\ mres' = RaisedResult(sid)
               /\ UNCHANGED <<db_series, db_chapters, mlast>>
          ELSE /\ db_chapters' = db_chapters \cup NewChapters(sid, added)
               /\ db_series' = [db_series EXCEPT ![sid] =
                     [present |-> TRUE,
                      total_chapters |-> TotalChapters(chs),
                      latest_chapter |-> IF chs /= <<>> THEN MaxChapterNumber(chs)
                                         ELSE db_series[sid].latest_chapter,
                      last_checked_at |-> mruns,
                      title |-> Overwritten(db_series[sid].title, mrun.title)]]
               /\ mlast' = [mlast EXCEPT ![sid] = [ran |-> TRUE, chapters |-> chs]]
               /\ mres' = [outcome |-> "committed", source_id |-> sid,
                           chapters_added |-> ChaptersAdded(sid, chs),
                           repeat |-> (mlast[sid].ran /\ mlast[sid].chapters = chs),
                           chapters_before |-> ChaptersOf(sid),
                           total_before |-> db_series[sid].total_chapters,
                           chapters |-> chs,
                           latest_before |-> db_series[sid].latest_chapter,
                           run |-> mruns,
                           series_before |-> db_series[sid],
                           title |-> mrun.title]
    /\ UNCHANGED mruns

\* the task is interrupted inside the chapter loop, after k of the chapters
\* (SoftTimeLimitExceeded of task_soft_time_limit, an Exception): the session
\* holds the series (added and flushed when new) and the chapters added so
\* far; the except block runs with or without a job
scrape_series_interrupted(k, has_job) ==
    /\ UNCHANGED nonMerge
    /\ mpc = "merge"
    /\ k \in 0..Len(mrun.chapters)
    /\ mpc' = "idle"
    /\ mrun' = NoRun
    /\ LET sid == mrun.source_id
           added == ChaptersToAdd(sid, Prefix(mrun.chapters, k))
       IN /\ mres' = [RaisedResult(sid) EXCEPT !.chapters = mrun.chapters]
          /\ IF ExceptCommits(has_job) /\ ~ViolatesUnique(added)
             THEN /\ db_chapters' = db_chapters \cup NewChapters(sid, added)
                  /\ db_series' = [db_series EXCEPT
                        ![sid].present = TRUE,
                        ![sid].title = Overwritten(@, mrun.title)]
             ELSE UNCHANGED <<db_series, db_chapters>>
    /\ UNCHANGED <<mlast, mruns>>

\* the merge next to interruptions of the task
RollbackNext ==
    \/ \E sid \in SourceIds, chs \in AdapterOutputs, title \in NullTitles :
            scrape_series_scraped(sid, chs, title)
    \/ \E sid \in SourceIds : scrape_series_raised(sid)
    \/ scrape_series_merge
    \/ \E k \in 0..MaxChapters, has_job \in BOOLEAN : scrape_series_interrupted(k, has_job)

\* the merges of the stored series with adapter outputs that give a stored
\* chapter another title
UpsertNext ==
    \/ \E chs \in RetitledOutputs, title \in SeriesTitles :
            scrape_series_scraped("s1", chs, title)
    \/ scrape_series_raised("s1")
    \/ scrape_series_merge

MergeNext ==
    \/ \E sid \in SourceIds, chs \in AdapterOutputs, title \in NullTitles :
            scrape_series_scraped(sid, chs, title)
    \/ \E sid \in SourceIds : scrape_series_raised(sid)
    \/ scrape_series_merge

(***************************************************************************)
(* Chapter images: the image upsert of scrape_chapter and                  *)
(* scrape_chapter_browser, and download_images                             *)
(***************************************************************************)
ImageTasks == {"scrape_chapter", "scrape_chapter_browser"}
ImageChapters == {1, 2}
MaxPages == 2
MaxScrapes == 2
MaxDownloadRuns == 1

\* images_data: the adapters number the pages 1, 2, ... in order
ImagesData == {[i \in 1..n |-> [page_number |-> i]] : n \in 0..MaxPages}

NoImageRun == [chapter_id |-> Nil, images_data |-> <<>>, idx |-> 0, added |-> <<>>]
NoDownload == [chapter_id |-> Nil, images |-> <<>>, idx |-> 0, downloaded |-> 0,
               ok |-> {}, failed |-> {}]
NoDownloadResult == [kind |-> None, chapter_id |-> Nil, images |-> <<>>,
                     downloaded |-> 0, ok |-> {}, failed |-> {}]

\* Chapter: is_scraped default False, scraped_at and total_images as created
NotScraped == [is_scraped |-> FALSE, scraped_at |-> Nil, total_images |-> 0]

ImageParked ==
    /\ db_images = {}
    /\ inext = 1
    /\ ipc = [w \in ImageTasks |-> "idle"]
    /\ irun = [w \in ImageTasks |-> NoImageRun]
    /\ iscrapes = 0
    /\ dpc = "idle"
    /\ dl = NoDownload
    /\ dres = NoDownloadResult
    /\ idownloads = 0
    /\ db_scraped = [c \in ImageChapters |-> NotScraped]
    /\ dispatched = [c \in ImageChapters |-> 0]

ImageInit == now = 0 /\ ImageParked

\* select(ChapterImage).where(chapter_id == c, page_number == n)
\* .scalar_one_or_none() is None, against the committed rows
NoExistingImage(c, n) ==
    ~ \E row \in db_images : row.chapter_id = c /\ row.page_number = n

\* images_data = run_async(scraper.scrape_chapter(chapter.source_url)) returns
scrape_chapter_scraped(w, c, data) ==
    /\ UNCHANGED nonImage
    /\ ipc[w] = "idle"
    /\ iscrapes < MaxScrapes
    /\ iscrapes' = iscrapes + 1
    /\ irun' = [irun EXCEPT ![w] =
            [chapter_id |-> c, images_data |-> data, idx |-> 1, added |-> <<>>]]
    /\ ipc' = [ipc EXCEPT ![w] = "loop"]
    /\ UNCHANGED <<db_images, inext, dpc, dl, dres, idownloads, db_scraped, dispatched>>

\* one turn of `for img_data in images_data`: the select, and db.add(image)
\* when no row was found
scrape_chapter_image(w) ==
    /\ UNCHANGED nonImage
    /\ ipc[w] = "loop"
    /\ irun[w].idx <= Len(irun[w].images_data)
    /\ LET r == irun[w]
           n == r.images_data[r.idx].page_number
       IN irun' = [irun EXCEPT ![w] =
            [r EXCEPT !.idx = @ + 1,
                      !.added = IF NoExistingImage(r.chapter_id, n)
                                THEN Append(@, n) ELSE @]]
    /\ UNCHANGED <<db_images, inext, ipc, iscrapes, dpc, dl, dres, idownloads,
                   db_scraped, dispatched>>

ScrapedTotal_m(data) == 0

\* chapter.total_images = len(images_data)
ScrapedTotal(data) == Len(data)

\* chapter.is_scraped = True; chapter.scraped_at = now; chapter.total_images =
\* len(images_data); db.commit(): the added images become rows
scrape_chapter_commit(w) ==
    /\ UNCHANGED nonImage
    /\ ipc[w] = "loop"
    /\ irun[w].idx > Len(irun[w].images_data)
    /\ LET r == irun[w]
       IN /\ db_images' = db_images \cup
                {[id |-> inext + i - 1, chapter_id |-> r.chapter_id,
                  page_number |-> r.added[i], is_downloaded |-> FALSE]
                    : i \in 1..Len(r.added)}
          /\ inext' = inext + Len(r.added)
          /\ db_scraped' = [db_scraped EXCEPT ![r.chapter_id] =
                [is_scraped |-> TRUE, scraped_at |-> now,
                 total_images |-> ScrapedTotal(r.images_data)]]
    /\ ipc' = [ipc EXCEPT ![w] = "committed"]
    /\ UNCHANGED <<irun, iscrapes, dpc, dl, dres, idownloads, dispatched>>

\* download_images.delay(chapter_id), and the task returns
scrape_chapter_dispatch(w) ==
    /\ UNCHANGED nonImage
    /\ ipc[w] = "committed"
    /\ dispatched' = [dispatched EXCEPT ![irun[w].chapter_id] = @ + 1]
    /\ irun' = [irun EXCEPT ![w] = NoImageRun]
    /\ ipc' = [ipc EXCEPT ![w] = "idle"]
    /\ UNCHANGED <<db_images, inext, iscrapes, dpc, dl, dres, idownloads, db_scraped>>

\* an exception inside or before the loop (SoftTimeLimitExceeded, a failing
\* select): except Exception: db.rollback(); raise self.retry(exc=exc)
scrape_chapter_raise(w) ==
    /\ UNCHANGED nonImage
    /\ ipc[w] = "loop"
    /\ irun' = [irun EXCEPT ![w] = NoImageRun]
    /\ ipc' = [ipc EXCEPT ![w] = "idle"]
    /\ UNCHANGED <<db_images, inext, iscrapes, dpc, dl, dres, idownloads,
                   db_scraped, dispatched>>

\* the rows of chapter c with is_downloaded == False, .order_by(page_number)
RECURSIVE OrderByPage(_)
OrderByPage(rows) ==
    IF rows = {} THEN <<>>
    ELSE LET first == CHOOSE r \in rows :
                \A q \in rows : \/ r.page_number < q.page_number
                                \/ (r.page_number = q.page_number /\ r.id <= q.id)
         IN <<first.id>> \o OrderByPage(rows \ {first})

ImagesToDownload(c) ==
    OrderByPage({row \in db_images : row.chapter_id = c /\ ~row.is_downloaded})

\* the select of download_images; `if not images: return {"downloaded": 0}`
download_images_select(c) ==
    /\ UNCHANGED nonImage
    /\ dpc = "idle"
    /\ idownloads < MaxDownloadRuns
    /\ idownloads' = idownloads + 1
    /\ IF ImagesToDownload(c) = <<>>
       THEN /\ dres' = [NoDownloadResult EXCEPT !.kind = "return", !.chapter_id = c]
            /\ UNCHANGED <<dpc, dl>>
       ELSE /\ dl' = [NoDownload EXCEPT !.chapter_id = c,
                                        !.images = ImagesToDownload(c), !.idx = 1]
            /\ dpc' = "loop"
            /\ UNCHANGED dres
    /\ UNCHANGED <<db_images, inext, ipc, irun, iscrapes, db_scraped, dispatched>>

\* download_and_store returned: image.is_downloaded = True; downloaded += 1
AfterImageStored(d, img) ==
    [d EXCEPT !.idx = @ + 1, !.downloaded = @ + 1, !.ok = @ \cup {img}]

AfterImageFailed_m(d, img) ==
    [d EXCEPT !.idx = Len(d.images) + 1, !.failed = @ \cup {img}]

\* except Exception as e: logger.warning(...): the loop goes on
AfterImageFailed(d, img) ==
    [d EXCEPT !.idx = @ + 1, !.failed = @ \cup {img}]

download_image_ok ==
    /\ UNCHANGED nonImage
    /\ dpc = "loop"
    /\ dl.idx <= Len(dl.images)
    /\ dl' = AfterImageStored(dl, dl.images[dl.idx])
    /\ UNCHANGED <<db_images, inext, ipc, irun, iscrapes, dpc, dres, idownloads,
                   db_scraped, dispatched>>

download_image_fail ==
    /\ UNCHANGED nonImage
    /\ dpc = "loop"
    /\ dl.idx <= Len(dl.images)
    /\ dl' = AfterImageFailed(dl, dl.images[dl.idx])
    /\ UNCHANGED <<db_images, inext, ipc, irun, iscrapes, dpc, dres, idownloads,
                   db_scraped, dispatched>>

\* db.commit(); return {"chapter_id": ..., "downloaded": downloaded}
download_images_commit ==
    /\ UNCHANGED nonImage
    /\ dpc = "loop"
    /\ dl.idx > Len(dl.images)
    /\ db_images' = {IF row.id \in dl.ok THEN [row EXCEPT !.is_downloaded = TRUE]
                     ELSE row : row \in db_images}
    /\ dres' = [kind |-> "return", chapter_id |-> dl.chapter_id, images |-> dl.images,
                downloaded |-> dl.downloaded, ok |-> dl.ok, failed |-> dl.failed]
    /\ dl' = NoDownload
    /\ dpc' = "idle"
    /\ UNCHANGED <<inext, ipc, irun, iscrapes, idownloads, db_scraped, dispatched>>

\* the images earlier scrapes have stored: pages 1..n[c] of each chapter c,
\* those with an id in done downloaded already
StoredImages(n, done) ==
    {[id |-> (c - 1) * MaxPages + p, chapter_id |-> c, page_number |-> p,
      is_downloaded |-> ((c - 1) * MaxPages + p \in done)] :
        c \in ImageChapters, p \in 1..MaxPages} \cap
    {row \in [id : 1..(2 * MaxPages), chapter_id : ImageChapters,
              page_number : 1..MaxPages, is_downloaded : BOOLEAN] :
        row.page_number <= n[row.chapter_id]}

DownloadInit ==
    /\ now = 0
    /\ \E n \in [ImageChapters -> 0..MaxPages], done \in SUBSET (1..(2 * MaxPages)) :
          db_images = StoredImages(n, done)
    /\ inext = 2 * MaxPages + 1
    /\ ipc = [w \in ImageTasks |-> "idle"]
    /\ irun = [w \in ImageTasks |-> NoImageRun]
    /\ iscrapes = 0
    /\ dpc = "idle"
    /\ dl = NoDownload
    /\ dres = NoDownloadResult
    /\ idownloads = 0
    /\ db_scraped = [c \in ImageChapters |-> NotScraped]
    /\ dispatched = [c \in ImageChapters |-> 0]

\* the runs of download_images alone
DownloadNext ==
    \/ \E c \in ImageChapters : download_images_select(c)
    \/ download_image_ok
    \/ download_image_fail
    \/ download_images_commit

\* the chapter scrapes alone, with executions that raise
ChapterScrapeNext ==
    \/ \E w \in ImageTasks, c \in ImageChapters, data \in ImagesData :
            scrape_chapter_scraped(w, c, data)
    \/ \E w \in ImageTasks : scrape_chapter_image(w)
    \/ \E w \in ImageTasks : scrape_chapter_commit(w)
    \/ \E w \in ImageTasks : scrape_chapter_dispatch(w)
    \/ \E w \in ImageTasks : scrape_chapter_raise(w)

ImageNext ==
    \/ \E w \in ImageTasks, c \in ImageChapters, data \in ImagesData :
            scrape_chapter_scraped(w, c, data)
    \/ \E w \in ImageTasks : scrape_chapter_image(w)
    \/ \E w \in ImageTasks : scrape_chapter_commit(w)
    \/ \E w \in ImageTasks : scrape_chapter_dispatch(w)
    \/ \E c \in ImageChapters : download_images_select(c)
    \/ download_image_ok
    \/ download_image_fail
    \/ download_images_commit

(***************************************************************************)
(* Named lock: RedisClient.acquire_lock / release_lock                     *)
(***************************************************************************)
LockCallers == {"l1", "l2"}
LockNames == {"updates", "series:1"}
\* timeout: int = 30
LOCK_TIMEOUT == 30
LockTickStep == LOCK_TIMEOUT \div 2
LockMaxTime == 60

LockParked ==
    /\ lock_store = [n \in LockNames |-> NoKey]
    /\ lheld = [c \in LockCallers |-> [n \in LockNames |-> Nil]]

LockInit == now = 0 /\ LockParked

\* client.set(f"lock:{name}", "1", nx=True, ex=timeout): one atomic command,
\* True when the key was absent and has been set, None otherwise
SetNx(n) == lock_store[n] = NoKey

acquire_lock(c, n) ==
    /\ UNCHANGED nonLock
    /\ lheld[c][n] = Nil
    /\ IF SetNx(n)
       THEN /\ lock_store' = [lock_store EXCEPT ![n] =
                    [val |-> 1, exp |-> now + LOCK_TIMEOUT]]
            /\ lheld' = [lheld EXCEPT ![c][n] = now]
       ELSE UNCHANGED <<lock_store, lheld>>
    /\ UNCHANGED now

\* client.delete(f"lock:{name}"): whatever the key holds and whoever set it
DeletesKey(c, n) == TRUE

\* release_lock by a caller whose acquire_lock had returned True
release_lock(c, n) ==
    /\ UNCHANGED nonLock
    /\ lheld[c][n] /= Nil
    /\ lock_store' = IF DeletesKey(c, n) THEN [lock_store EXCEPT ![n] = NoKey]
                     ELSE lock_store
    /\ lheld' = [lheld EXCEPT ![c][n] = Nil]
    /\ UNCHANGED now

\* time passes; keys whose TTL is over are gone
LockTick ==
    /\ UNCHANGED nonLock
    /\ now + LockTickStep <= LockMaxTime
    /\ now' = now + LockTickStep
    /\ lock_store' = StoreExpire(lock_store, now + LockTickStep)
    /\ UNCHANGED lheld

LockNext ==
    \/ \E c \in LockCallers, n \in LockNames : acquire_lock(c, n)
    \/ \E c \in LockCallers, n \in LockNames : release_lock(c, n)
    \/ LockTick

(***************************************************************************)
(* Job retention: the periodic task cleanup_old_jobs (workers/tasks.py)    *)
(***************************************************************************)
CleanIds == {1, 2}
\* the days on which the stored jobs ended; cleanup runs on the last of them
MaxCleanDay == 9
\* timedelta(days=7)
RETENTION_DAYS == 7

\* the rows the tasks and cancel_job leave: completed and cancelled jobs carry
\* completed_at, the day they ended; the except block of the tasks sets
\* status = FAILED and no completed_at; pending and running jobs have none
StoredJobs ==
    {[status |-> st, completed_at |-> d, terminal_at |-> d]
        : st \in {"completed", "cancelled"}, d \in 0..MaxCleanDay}
    \cup {[status |-> "failed", completed_at |-> Nil, terminal_at |-> d]
        : d \in 0..MaxCleanDay}
    \cup {[status |-> st, completed_at |-> Nil, terminal_at |-> Nil]
        : st \in {"pending", "running"}}

NotCleaned == [ran |-> FALSE, deleted |-> {}]

CleanParked ==
    /\ old_jobs = [j \in CleanIds |-> [status |-> "pending", completed_at |-> Nil,
                                       terminal_at |-> Nil]]
    /\ cleaned = NotCleaned

CleanInit ==
    /\ now = MaxCleanDay
    /\ old_jobs \in [CleanIds -> StoredJobs]
    /\ cleaned = NotCleaned

\* cutoff = datetime.now(timezone.utc) - timedelta(days=7)
Cutoff(t) == t - RETENTION_DAYS

\* Job.status.in_([JobStatus.COMPLETED, JobStatus.FAILED])
CleanedStatuses == {"completed", "failed"}

\* Job.completed_at < cutoff: never true of a NULL completed_at
CompletedBefore(row, cutoff) ==
    row.completed_at /= Nil /\ row.completed_at < cutoff

\* select(Job).where(and_(status.in_(...), completed_at < cutoff))
OldJobs(t) ==
    {j \in CleanIds : /\ old_jobs[j].status \in CleanedStatuses
                      /\ CompletedBefore(old_jobs[j], Cutoff(t))}

\* for job in old_jobs: db.delete(job); db.commit()
cleanup_old_jobs ==
    /\ UNCHANGED nonClean
    /\ ~cleaned.ran
    /\ cleaned' = [ran |-> TRUE, deleted |-> OldJobs(now)]
    /\ UNCHANGED <<now, old_jobs>>

CleanNext == cleanup_old_jobs

(***************************************************************************)
(* Specifications                                                          *)
(***************************************************************************)
(***************************************************************************)
(* Browser sessions of a worker: the scraper and the pool each unit of     *)
(* work makes (workers/tasks.py, scrapers/base.py)                         *)
(***************************************************************************)
UnitTasks == {"scrape_series", "scrape_chapter", "scrape_chapter_browser"}
MaxUnits == 6
\* scraper_concurrent_browsers: int = Field(default=3, ...), the pool size
CONCURRENT_BROWSERS == 3

SessParked ==
    /\ upc = "idle"
    /\ utask = None
    /\ upool = Nil
    /\ live = 0
    /\ units = 0

SessInit == now = 0 /\ SessParked

\* scraper = get_scraper_for_url(url): a new scraper object for every unit
\* of work, its _browser_pool is None
unit_begin(t) ==
    /\ UNCHANGED nonSess
    /\ upc = "idle"
    /\ units < MaxUnits
    /\ units' = units + 1
    /\ upc' = "running"
    /\ utask' = t
    /\ upool' = Nil
    /\ UNCHANGED live

\* the sessions of the scraper's pool after one more _fetch_browser: `if
\* self._browser_pool is None: self._browser_pool = BrowserPool()`, and the
\* fetches of a unit come one after the other, so an empty pool creates one
\* session and a pool that has one finds it idle
PoolAfterFetch(p) == IF p = Nil \/ p = 0 THEN 1 ELSE p

\* a fetch_page of the unit that goes to the browser
unit_fetch_browser ==
    /\ UNCHANGED nonSess
    /\ upc = "running"
    /\ upool' = PoolAfterFetch(upool)
    /\ live' = live + (PoolAfterFetch(upool) - (IF upool = Nil THEN 0 ELSE upool))
    /\ UNCHANGED <<upc, utask, units>>

\* the sessions a unit of work stops when it ends: the tasks never call
\* scraper.close(), the only caller of BrowserPool.close()
StoppedAtEnd(p) == 0

\* the unit returns or raises: finally: db.close(); the scraper and its pool
\* are dropped with the task's frame
unit_end ==
    /\ UNCHANGED nonSess
    /\ upc = "running"
    /\ live' = live - StoppedAtEnd(upool)
    /\ upc' = "idle"
    /\ utask' = None
    /\ upool' = Nil
    /\ UNCHANGED units

SessNext ==
    \/ \E t \in UnitTasks : unit_begin(t)
    \/ unit_fetch_browser
    \/ unit_end

ExtraParked == ImageParked /\ LockParked /\ RegParked /\ CleanParked /\ SessParked

InitRate == RateInit /\ PoolParked /\ JobParked /\ FetchParked /\ MergeParked /\ ExtraParked
InitPool == PoolInit /\ RateParked /\ JobParked /\ FetchParked /\ MergeParked /\ ExtraParked
InitWorker == JobInit /\ RateParked /\ PoolParked /\ FetchParked /\ MergeParked /\ ExtraParked
InitJob == JobInitApi /\ RateParked /\ PoolParked /\ FetchParked /\ MergeParked /\ ExtraParked
InitFetch == FetchInit /\ RateParked /\ PoolParked /\ JobParked /\ MergeParked /\ ExtraParked
InitMerge == MergeInit /\ RateParked /\ PoolParked /\ JobParked /\ FetchParked /\ ExtraParked

InitImage ==
    /\ ImageInit /\ RateParked /\ PoolParked /\ JobParked /\ FetchParked
    /\ MergeParked /\ LockParked /\ RegParked /\ CleanParked /\ SessParked
InitLock ==
    /\ LockInit /\ RateParked /\ PoolParked /\ JobParked /\ FetchParked
    /\ MergeParked /\ ImageParked /\ RegParked /\ CleanParked /\ SessParked
InitRegistry ==
    /\ RegInit /\ RateParked /\ PoolParked /\ JobParked /\ FetchParked
    /\ MergeParked /\ ImageParked /\ LockParked /\ CleanParked /\ SessParked
SpecRate == InitRate /\ [][RateNext]_vars
SpecPool == InitPool /\ [][PoolNext]_vars
\* the event loop runs every coroutine that is ready: a caller that has the
\* lock scans, a caller whose sleep is over asks again, _create_browser ends;
\* the body of a fetch awaits the browser with no deadline of its own
\* (page.get, page.get_content), so nothing makes a busy session come back
PoolFairness ==
    \A c \in PoolCallers :
        /\ WF_vars(get_instance_scan(c))
        /\ WF_vars(get_instance_retry(c))
        /\ WF_vars(create_browser_ok(c) \/ create_browser_fail(c))
SpecPoolLive == InitPool /\ [][AcquireNext]_vars /\ PoolFairness
\* and every body of a fetch ends, so that every holder gives its session back
ReleaseFairness == \A c \in PoolCallers : WF_vars(release_instance(c))
SpecPoolFair == InitPool /\ [][AcquireNext]_vars /\ PoolFairness /\ ReleaseFairness
SpecWorker == InitWorker /\ [][WorkerNext]_vars
SpecJob == InitJob /\ [][JobNext]_vars
SpecFetch == InitFetch /\ [][FetchNext]_vars
SpecMerge == InitMerge /\ [][MergeNext]_vars
InitEnqueue == JobInitEnqueue /\ RateParked /\ PoolParked /\ FetchParked /\ MergeParked /\ ExtraParked
SpecEnqueue == InitEnqueue /\ [][EnqueueNext]_vars

InitRetry == JobInitRetry /\ RateParked /\ PoolParked /\ FetchParked /\ MergeParked /\ ExtraParked
SpecRetry == InitRetry /\ [][RetryNext]_vars
InitTypes == JobInitTypes /\ RateParked /\ PoolParked /\ FetchParked /\ MergeParked /\ ExtraParked
\* job 1 of any type next to a download job
InitRetryTypes == InitTypes /\ jobs[2].job_type = "download_images"
SpecRetryTypes == InitRetryTypes /\ [][RetryNext]_vars
\* the queue delivers every message it holds, and every unit of work ends
QueueFairness ==
    \A j \in JobIds :
        /\ WF_vars(\E m \in queue : m.job = j /\ exec_start(m))
        /\ WF_vars(\E e \in execs : e.job = j /\ (exec_succeed(e) \/ exec_fail(e)))
SpecTypesLive == InitTypes /\ [][WorkerNext]_vars /\ QueueFairness
SpecRetryApi == InitJob /\ [][RetryNext]_vars
SpecCancel == InitJob /\ [][CancelNext]_vars

SpecRollback == InitMerge /\ [][RollbackNext]_vars
InitUpsert == UpsertInit /\ RateParked /\ PoolParked /\ JobParked /\ FetchParked /\ ExtraParked
SpecUpsert == InitUpsert /\ [][UpsertNext]_vars

InitClean ==
    /\ CleanInit /\ RateParked /\ PoolParked /\ JobParked /\ FetchParked /\ MergeParked
    /\ ImageParked /\ LockParked /\ RegParked /\ SessParked
SpecClean == InitClean /\ [][CleanNext]_vars

InitSess ==
    /\ SessInit /\ RateParked /\ PoolParked /\ JobParked /\ FetchParked /\ MergeParked
    /\ ImageParked /\ LockParked /\ RegParked /\ CleanParked
SpecSess == InitSess /\ [][SessNext]_vars

SpecImage == InitImage /\ [][ImageNext]_vars
SpecChapterScrape == InitImage /\ [][ChapterScrapeNext]_vars
InitDownload ==
    /\ DownloadInit /\ RateParked /\ PoolParked /\ JobParked /\ FetchParked
    /\ MergeParked /\ LockParked /\ RegParked /\ CleanParked /\ SessParked
SpecDownload == InitDownload /\ [][DownloadNext]_vars
SpecLock == InitLock /\ [][LockNext]_vars
SpecRegistry == InitRegistry /\ [][RegNext]_vars

(***************************************************************************)
(* Properties                                                              *)
(***************************************************************************)

\* every HTTP response of the fetch was a 503 whose body contains "just a moment"
OnlyChallenges503 ==
    /\ responses /= <<>>
    /\ \A i \in 1..Len(responses) :
        /\ responses[i].status = 503
        /\ "just a moment" \in IndicatorsIn(responses[i].text)

\* C1: a fetch that is not forced to the browser and whose HTTP responses
\* were 503 "just a moment" challenges calls the browser pool exactly once,
\* for the same URL and wait marker, and returns what the browser gave.
C1_ChallengeFallsBackOnce ==
    (fpc = "done" /\ ~freq.force_browser /\ ~freq.requires_browser
        /\ OnlyChallenges503)
    => /\ Len(browser_calls) = 1
       /\ browser_calls[1].url = freq.url
       /\ browser_calls[1].wait_selector = freq.wait_selector
       /\ fresult.src = "browser"

\* grants of key k since the counter now in the store was created
GrantsInWindow(k) ==
    Cardinality({i \in 1..Len(grants[k]) :
                    grants[k][i] >= window_start[k]
                    /\ grants[k][i] < window_start[k] + WINDOW})

\* grants of key k in the current window up to time t
GrantsUpTo(k, t) ==
    Cardinality({i \in 1..Len(grants[k]) :
                    grants[k][i] >= window_start[k] /\ grants[k][i] <= t})

\* C2: within one 60-second window of a key, check_rate_limit returns True
\* for at most `limit` calls, and returns False only once `limit` calls of
\* that window were allowed, whatever the interleaving of the callers.
C2_ExactlyLimitPerWindow ==
    \A k \in RateKeys :
        window_start[k] /= Nil =>
            /\ GrantsInWindow(k) <= limitOf[k]
            /\ \A i \in 1..Len(denials[k]) :
                denials[k][i] >= window_start[k]
                    => GrantsUpTo(k, denials[k][i]) >= limitOf[k]

\* C3: busy_count <= active_count <= pool_size in every state of the pool.
C3_CountsBounded ==
    /\ busy_count <= active_count
    /\ active_count <= pool_size

\* the pool is full, every session is busy and a caller waits for one
C3_Witness ==
    /\ active_count = pool_size
    /\ busy_count = pool_size
    /\ \E c \in PoolCallers : ppc[c] = "sleeping"

\* C4: no session is held by two callers at the same time.
C4_ExclusiveHold ==
    \A c, d \in PoolCallers :
        (c /= d /\ ppc[c] = "holding" /\ ppc[d] = "holding") => held[c] /= held[d]

\* one caller holds the only session of a full pool while the other is in acquire
C4_Witness ==
    \E c, d \in PoolCallers :
        /\ c /= d
        /\ ppc[c] = "holding"
        /\ ppc[d] = "sleeping"
        /\ instances = <<held[c]>>

\* C5: acquire returns no session with request_count >= 50 or age >= 1800
\* seconds, a session the scan retires is destroyed and no longer tracked,
\* and no session serves more than 50 requests.
C5_NoExpiredSessionAcquired ==
    /\ \A c \in PoolCallers :
        ppc[c] = "holding" =>
            /\ acq[c].request_count < MAX_REQUESTS_PER_BROWSER
            /\ acq[c].age < MAX_BROWSER_AGE_SECONDS
    /\ \A i \in InstIds :
        /\ inst[i].request_count <= MAX_REQUESTS_PER_BROWSER
        /\ inst[i].stopped => ~ \E k \in 1..Len(instances) : instances[k] = i

\* a session that served 50 requests was retired by a scan, and so was one
\* that reached 1800 seconds, while a caller holds a session
C5_Witness ==
    /\ \E c \in PoolCallers : ppc[c] = "holding"
    /\ \E i \in InstIds :
        /\ inst[i].stopped
        /\ inst[i].request_count = MAX_REQUESTS_PER_BROWSER
    /\ closes = 0

JobEnded(j) ==
    /\ ~ \E m \in queue : m.job = j
    /\ ~ \E e \in execs : e.job = j

\* C6: a job whose unit of work raised on every execution, once the queue
\* retries it no more, is failed with retry_count == max_retries, the unit
\* having run exactly max_retries times.
C6_AlwaysRaisingEndsAtMaxRetries ==
    \A j \in JobIds :
        (JobEnded(j) /\ execCount[j] >= 1 /\ raisedCount[j] = execCount[j])
        => /\ jobs[j].status = "failed"
           /\ jobs[j].retry_count = jobs[j].max_retries
           /\ execCount[j] = jobs[j].max_retries

\* C7: a job whose execution failed with retry_count < max_retries is queued
\* for another execution, and once an execution has succeeded the job is
\* completed and nothing more of it is queued or running.
C7_RetriedThenCompleted ==
    \A j \in JobIds :
        /\ (jobs[j].status = "failed" /\ jobs[j].retry_count < jobs[j].max_retries)
            => \E m \in queue : m.job = j
        /\ succeeded[j] =>
            /\ jobs[j].status = "completed"
            /\ JobEnded(j)

\* a job that failed twice and then succeeded
C7_Witness ==
    \E j \in JobIds :
        /\ succeeded[j]
        /\ raisedCount[j] = 2
        /\ jobs[j].status = "completed"

AllowedEdges ==
    {<<"pending", "running">>, <<"running", "completed">>, <<"running", "failed">>,
     <<"running", "cancelled">>, <<"failed", "pending">>}

\* C8: every change of a job's status is one of pending -> running,
\* running -> completed, running -> failed, running -> cancelled and, by
\* retry_job, failed -> pending.
C8_OnlyListedEdges ==
    [][\A j \in JobIds :
        jobs'[j].status /= jobs[j].status =>
            /\ <<jobs[j].status, jobs'[j].status>> \in AllowedEdges
            /\ jobs[j].status = "failed" => jop' = <<"retry_job", j>>]_vars

\* C9: a completed or cancelled job keeps its status for good, and a failed
\* job changes status only by retry_job.
C9_TerminalStatesStay ==
    [][\A j \in JobIds :
        /\ jobs[j].status \in {"completed", "cancelled"}
            => jobs'[j].status = jobs[j].status
        /\ (jobs[j].status = "failed" /\ jobs'[j].status /= "failed")
            => jop' = <<"retry_job", j>>]_vars

\* C10: a run of scrape_series whose adapter output is the one the last
\* committed run of the same series had adds no chapter, and leaves the
\* stored chapters of the series and its total_chapters as they were.
C10_MergeIdempotent ==
    (mres.outcome = "committed" /\ mres.repeat) =>
        /\ mres.chapters_added = 0
        /\ ChaptersOf(mres.source_id) = mres.chapters_before
        /\ db_series[mres.source_id].total_chapters = mres.total_before

\* a second run with the same two chapters has committed
C10_Witness ==
    /\ mres.outcome = "committed"
    /\ mres.repeat
    /\ Cardinality(ChaptersOf(mres.source_id)) = 2
    /\ mpc = "idle"

\* n is the largest chapter number of the adapter output chs
IsMaxOf(n, chs) ==
    /\ \E i \in 1..Len(chs) : chs[i].chapter_number = n
    /\ \A i \in 1..Len(chs) : chs[i].chapter_number <= n

\* C11: after every committed merge total_chapters is the number of chapters
\* of the adapter output, latest_chapter is the largest chapter number of
\* that output (none when the output has no chapter) and last_checked_at is
\* stamped by this run, however many chapters were added.
C11_StatsFollowOutput ==
    mres.outcome = "committed" =>
        LET ser == db_series[mres.source_id]
        IN /\ ser.total_chapters = Len(mres.chapters)
           /\ ser.last_checked_at = mres.run
           /\ IF mres.chapters = <<>> THEN ser.latest_chapter = Nil
              ELSE IsMaxOf(ser.latest_chapter, mres.chapters)

\* C11 as the code has it: with an empty adapter output latest_chapter keeps
\* the value it had before the run.
C11_StatsFollowOutputKeepLatest ==
    mres.outcome = "committed" =>
        LET ser == db_series[mres.source_id]
        IN /\ ser.total_chapters = Len(mres.chapters)
           /\ ser.last_checked_at = mres.run
           /\ IF mres.chapters = <<>> THEN ser.latest_chapter = mres.latest_before
              ELSE IsMaxOf(ser.latest_chapter, mres.chapters)

\* a run with an empty chapter list has committed on a series that had a
\* latest chapter
C11_Witness ==
    /\ mres.outcome = "committed"
    /\ mres.chapters = <<>>
    /\ mres.latest_before /= Nil
    /\ db_series[mres.source_id].total_chapters = 0

\* C12: for every chapter and page number there is at most one image row.
C12_OneImagePerPage ==
    \A r, q \in db_images :
        (r.chapter_id = q.chapter_id /\ r.page_number = q.page_number) => r.id = q.id

\* C13: a download_images run that found images returns normally with
\* downloaded = the number of images stored, every image of the batch was
\* either stored or failed, the failed ones keep is_downloaded = FALSE and
\* the stored ones have is_downloaded = TRUE.
C13_FailedImagesSkipped ==
    /\ dres.kind \in {None, "return"}
    /\ dres.kind = "return" =>
        /\ dres.downloaded = Cardinality(dres.ok)
        /\ dres.ok \cup dres.failed = {dres.images[i] : i \in 1..Len(dres.images)}
        /\ dres.ok \cap dres.failed = {}
        /\ \A row \in db_images :
            /\ row.id \in dres.failed => ~row.is_downloaded
            /\ row.id \in dres.ok => row.is_downloaded

\* a batch whose first image failed and whose second image was stored
C13_Witness ==
    /\ dres.kind = "return"
    /\ Len(dres.images) = 2
    /\ dres.images[1] \in dres.failed
    /\ dres.images[2] \in dres.ok
    /\ dres.downloaded = 1

\* C14: whenever a fetch_page of the pool ends, by a return or by an
\* exception, the session it had acquired is not busy afterwards and its
\* request_count is one more than before.
C14_EveryExitReleases ==
    [][\A c \in PoolCallers :
        (ppc[c] = "holding" /\ ppc'[c] = "idle") =>
            /\ ~inst'[held[c]].is_busy
            /\ inst'[held[c]].request_count = inst[held[c]].request_count + 1]_vars

\* a fetch has ended by an exception and no session is busy
C14_Witness ==
    /\ pexit.kind = "raise"
    /\ busy_count = 0
    /\ \E i \in InstIds : inst[i].made /\ inst[i].request_count = 1 /\ ~inst[i].is_busy

\* caller c holds the lock n: its acquire_lock returned True, it has not
\* called release_lock since, and the TTL of that acquisition is not over
HoldsLock(c, n) ==
    /\ lheld[c][n] /= Nil
    /\ now < lheld[c][n] + LOCK_TIMEOUT

\* C15: a named lock never has two holders.
C15_LockMutualExclusion ==
    \A n \in LockNames : \A c, d \in LockCallers :
        (HoldsLock(c, n) /\ HoldsLock(d, n)) => c = d

\* C16: every rate-limit counter in the store has a TTL that ends at most
\* 60 seconds from now, so a counter that has reached its limit goes away and
\* the domain is allowed again.
C16_CountersExpire ==
    \A k \in RateKeys :
        store[k] /= NoKey =>
            /\ store[k].exp /= Nil
            /\ store[k].exp <= now + WINDOW

\* C19: get_scraper_for_url returns an adapter exactly when the lower-cased
\* hostname of the URL is a key of the registry, the adapter registered for
\* it, and that adapter requires the browser exactly when the hostname is in
\* the browser-required set.
C19_AdapterByHostname ==
    reg_result.called =>
        IF Hostname(reg_url) \in DOMAIN SCRAPER_REGISTRY
        THEN /\ reg_result.adapter.site = SCRAPER_REGISTRY[Hostname(reg_url)]
             /\ reg_result.adapter.requires_browser
                    = (Hostname(reg_url) \in BROWSER_REQUIRED_DOMAINS)
        ELSE reg_result.adapter = NoAdapter

ExecsOf(j) == {e \in execs : e.job = j}

\* C17: a job never has two executions in flight, and the row of a running
\* job is changed only by the execution that runs it, when it returns or raises.
C17_SingleExecutor ==
    [][\A j \in JobIds :
        /\ Cardinality(ExecsOf(j)') <= 1
        /\ (jobs[j].status = "running" /\ jobs'[j] /= jobs[j])
            => jop' \in {<<"exec_succeed", j>>, <<"exec_fail", j>>}]_vars

\* C18: a unit of work whose URL has no registered adapter is rejected by its
\* first execution: it is executed at most once, and once it has raised no
\* message for it is in the queue.
C18_NoAdapterRejectedOnce ==
    \A j \in JobIds :
        ~HasScraper(j) =>
            /\ execCount[j] <= 1
            /\ raisedCount[j] >= 1 => ~\E m \in queue : m.job = j

\* C20: a fetch through the pool whose store operation (storing the harvested
\* cookies) failed does not return content: it ends with an error.
C20_StoreFailurePropagates ==
    pexit.store_failed => pexit.kind = "raise"

\* a non-2xx response that is not classified as a challenge
NonChallengeError(r) ==
    /\ r.status \notin 200..299
    /\ r.status \notin {403, 503} \/ IndicatorsIn(r.text) \cap Indicators = {}

C22_BrowserOnlyDelegatesOnce ==
    (freq.force_browser \/ freq.requires_browser) =>
        /\ responses = <<>>
        /\ attempt = 0
        /\ Len(browser_calls) <= 1
        /\ fpc = "done" =>
            /\ Len(browser_calls) = 1
            /\ browser_calls[1].url = freq.url
            /\ browser_calls[1].wait_selector = freq.wait_selector
            /\ browser_calls[1].content /= None =>
                fresult = [kind |-> "content", src |-> "browser",
                           value |-> browser_calls[1].content]
            /\ browser_calls[1].content = None => fresult.kind = "error"

C22_Witness ==
    /\ fpc = "done"
    /\ ~freq.force_browser
    /\ freq.requires_browser
    /\ Len(browser_calls) = 1
    /\ fresult.value = "<title>Just a moment...</title>"

\* C23: whenever a unit of work dispatched with a job id begins executing, the
\* job is running, has started_at stamped and records the handle of that
\* execution, wherever the commit of the enqueuing request falls.
C23_StartMarksRunning ==
    [][\A e \in execs' \ execs :
        /\ jobs'[e.job].status = "running"
        /\ jobs'[e.job].started_at
        /\ jobs'[e.job].celery_task_id = e.tid]_vars

\* C24: in every reachable state a completed job has started_at set,
\* completed_at set and a result payload.
C24_CompletedIsStamped ==
    \A j \in JobIds :
        jobs[j].status = "completed" =>
            /\ jobs[j].started_at
            /\ jobs[j].completed_at
            /\ jobs[j].result_data

\* the message that re-enqueues the unit of work of execution e
Requeued(e) == \E m \in queue' \ queue : m.job = e.job /\ m.tid = e.tid

\* C25: when an execution of a unit of work with a job raises, error_message
\* and error_traceback are recorded and retry_count grows by exactly 1; if the
\* new retry_count is below max_retries the unit is re-enqueued and the job is
\* pending (or in retry) rather than failed, otherwise the job is failed and the
\* unit is not re-enqueued.
C25_RaiseRecordsAndRequeues ==
    [][\A e \in execs \ execs' :
        jop' = <<"exec_fail", e.job>> =>
            /\ jobs'[e.job].error_message
            /\ jobs'[e.job].error_traceback
            /\ jobs'[e.job].retry_count = jobs[e.job].retry_count + 1
            /\ IF jobs'[e.job].retry_count < jobs'[e.job].max_retries
               THEN Requeued(e) /\ jobs'[e.job].status \in {"pending", "retry"}
               ELSE ~Requeued(e) /\ jobs'[e.job].status = "failed"]_vars

\* C26: retry_job is accepted only for a failed job: it sets the status to
\* pending, clears error_message, error_traceback, started_at and completed_at
\* and leaves every other field, retry_count included; for a job in any other
\* status it answers with a conflict, changes no job and enqueues nothing.
C26_RetryOnlyFailed ==
    [][\A j \in JobIds :
        (jop'[2] = j /\ jop'[1] \in {"retry_job", "retry_job_409"}) =>
            IF jobs[j].status = "failed"
            THEN /\ jop'[1] = "retry_job"
                 /\ jobs' = [jobs EXCEPT ![j].status = "pending",
                                         ![j].error_message = FALSE,
                                         ![j].error_traceback = FALSE,
                                         ![j].started_at = FALSE,
                                         ![j].completed_at = FALSE]
                 /\ jobs'[j].retry_count = jobs[j].retry_count
            ELSE /\ jop'[1] = "retry_job_409"
                 /\ jobs' = jobs
                 /\ queue' = queue]_vars

C26_Witness ==
    \E j \in JobIds :
        /\ jop = <<"retry_job", j>>
        /\ jobs[j].status = "pending"
        /\ jobs[j].retry_count >= 1
        /\ ~jobs[j].error_message
        /\ \E m \in queue : m.job = j /\ m.retries = 0

C26_WitnessConflict ==
    \E j \in JobIds : jop = <<"retry_job_409", j>> /\ jobs[j].status = "running"

\* C27: cancel_job on a job that is not finished sets the status to cancelled
\* and stamps completed_at, and revokes the recorded task once when a handle is
\* recorded and not at all when none is; on a finished job (completed, failed,
\* cancelled) it answers with a conflict, revokes nothing and leaves the job.
C27_CancelUnlessFinished ==
    [][\A j \in JobIds :
        (jop'[2] = j /\ jop'[1] \in {"cancel_job", "cancel_job_409"}) =>
            IF jobs[j].status \in {"completed", "failed", "cancelled"}
            THEN /\ jop'[1] = "cancel_job_409"
                 /\ jobs' = jobs
                 /\ revoked' = revoked
            ELSE /\ jop'[1] = "cancel_job"
                 /\ jobs' = [jobs EXCEPT ![j].status = "cancelled",
                                         ![j].completed_at = TRUE]
                 /\ IF jobs[j].celery_task_id = Nil
                    THEN jop'[3] = <<>> /\ revoked' = revoked
                    ELSE /\ jop'[3] = <<jobs[j].celery_task_id>>
                         /\ revoked' = revoked \cup {jobs[j].celery_task_id}]_vars

C27_Witness ==
    \E j \in JobIds :
        /\ jop[1] = "cancel_job" /\ jop[2] = j
        /\ Len(jop[3]) = 1
        /\ jobs[j].status = "cancelled"
        /\ jobs[j].completed_at

\* C28: when a unit of work raises, none of the series and chapter writes of
\* that execution are committed: the rows of its series are those found before.
C28_RaiseCommitsNothing ==
    mres.outcome = "raised" =>
        /\ ChaptersOf(mres.source_id) = mres.chapters_before
        /\ db_series[mres.source_id] = mres.series_before

\* C29: cleanup_old_jobs deletes every job that is in a terminal state
\* (completed, failed or cancelled) and became terminal more than 7 days ago,
\* and deletes no other job.
C29_CleanupDeletesOldTerminal ==
    cleaned.ran =>
        \A j \in CleanIds :
            j \in cleaned.deleted <=>
                /\ old_jobs[j].status \in {"completed", "failed", "cancelled"}
                /\ old_jobs[j].terminal_at < now - 7

\* C30: an acquire that found the pool full of busy sessions and went to
\* sleep ends after boundedly many polls: it gets a session or fails.
C30_AcquireEnds ==
    \A c \in PoolCallers :
        (ppc[c] = "sleeping") ~> (ppc[c] \in {"holding", "idle"})

\* an acquire polled until the interpreter's limit and then failed
C30_Witness ==
    /\ pexit = AcquireRaised
    /\ \E c \in PoolCallers : ppc[c] = "idle" /\ pfetches[c] > 0
    /\ busy_count = pool_size

\* C31: a scan of _get_instance goes on to create a session only when the
\* pool held no idle session that passes the retirement check.
C31_CreateOnlyWithoutIdleHealthy ==
    [][\A c \in PoolCallers :
        (ppc[c] = "locked" /\ ppc'[c] = "creating") =>
            \A k \in 1..Len(instances) :
                IsIdle(instances[k]) => NeedsReplacement(instances[k])]_vars

\* C32: an acquirer that is creating a session or sleeping for a free slot
\* does not hold the pool lock, so that another acquirer can enter the
\* critical section meanwhile.
C32_CreateAndSleepOutsideLock ==
    \A c \in PoolCallers :
        ppc[c] \in {"creating", "sleeping"} => lockOwner /= c

\* C33: when every holder of a session releases it in the end, every caller
\* that sleeps in acquire because the pool is full gets a session in the end.
C33_BlockedAcquirerGetsSession ==
    \A c \in PoolCallers : (ppc[c] = "sleeping") ~> (ppc[c] = "holding")

\* C34: close() calls the destroy of every session the pool tracks, whether
\* or not a destroy fails, and leaves the pool empty (active_count = 0 and
\* busy_count = 0); the release of a session does not put it into the pool.
C34_CloseEmptiesPool ==
    [][/\ (ppc[Closer] = "locked" /\ ppc'[Closer] = "idle") =>
            /\ \A k \in 1..Len(instances) : inst'[instances[k]].stopped
            /\ active_count' = 0
            /\ busy_count' = 0
       /\ \A c \in PoolCallers :
            (ppc[c] = "holding" /\ ppc'[c] = "idle") => instances' = instances]_vars

\* close() has emptied the pool while a caller still holds one of its sessions
C34_Witness ==
    /\ closes = 1
    /\ ppc[Closer] = "idle"
    /\ instances = <<>>
    /\ \E c \in PoolCallers : ppc[c] = "holding" /\ inst[held[c]].stopped

\* C35: within a fetch every network request (an HTTP attempt, a browser
\* navigation) comes after a rate-limit check that was allowed since the
\* request before it, and a denied check is followed by no request until a
\* check is allowed.
C35_RequestsFollowAllowedCheck ==
    [][/\ (responses' /= responses \/ browser_calls' /= browser_calls) =>
            /\ fpc \in {"http_get", "browser"}
            /\ fpc' \notin {"http_get", "browser"}
       /\ (fpc' \in {"http_get", "browser"} /\ fpc' /= fpc) =>
            /\ fpc \in {"rate_http", "rate_browser"}
            /\ fdenials' = fdenials
       /\ (fdenials' /= fdenials) =>
            /\ fpc \in {"rate_http", "rate_browser"}
            /\ fpc' = fpc
            /\ responses' = responses
            /\ browser_calls' = browser_calls]_vars

\* a fetch was denied once and made three HTTP attempts
C35_Witness ==
    /\ fpc = "done"
    /\ fdenials = 1
    /\ Len(responses) = STOP_AFTER_ATTEMPT

\* C36: a committed merge leaves every chapter row that was stored before
\* it as it was (title and scrape state), with no second row for its chapter
\* number, and the series has the adapter's title when that is not null and
\* keeps its own otherwise.
C36_MergeKeepsChapters ==
    mres.outcome = "committed" =>
        /\ \A row \in mres.chapters_before :
              \A q \in ChaptersOf(mres.source_id) :
                  q.chapter_number = row.chapter_number => q = row
        /\ mres.chapters_before \subseteq db_chapters
        /\ db_series[mres.source_id].title =
              IF mres.title /= None THEN mres.title ELSE mres.series_before.title

\* a merge has committed an adapter output that has the stored, scraped
\* chapter 1 of s1 under another title and no series title
C36_Witness ==
    /\ mres.outcome = "committed"
    /\ mres.source_id = "s1"
    /\ mres.title = None
    /\ \E i \in 1..Len(mres.chapters) :
          mres.chapters[i].chapter_number = 10 /\ mres.chapters[i].title = "b"
    /\ \E row \in mres.chapters_before : row.chapter_number = 10 /\ row.is_scraped

\* C37: an execution of a chapter scrape that commits sets is_scraped,
\* stamps scraped_at and sets total_images to the number of images of the
\* adapter output, with a row for each of them; it then dispatches one
\* download_images for its chapter, and no download is dispatched in any
\* other way; an execution that raises before the commit writes nothing and
\* dispatches nothing.
C37_ScrapeStampsAndDispatchesOnce ==
    [][/\ \A w \in ImageTasks :
            LET c == irun[w].chapter_id
                data == irun[w].images_data
            IN /\ (ipc[w] = "loop" /\ ipc'[w] = "committed") =>
                      /\ db_scraped'[c] = [is_scraped |-> TRUE, scraped_at |-> now,
                                           total_images |-> Len(data)]
                      /\ \A i \in 1..Len(data) :
                            \E row \in db_images' :
                                /\ row.chapter_id = c
                                /\ row.page_number = data[i].page_number
                      /\ dispatched' = dispatched
               /\ (ipc[w] = "committed" /\ ipc'[w] /= "committed") =>
                      /\ ipc'[w] = "idle"
                      /\ dispatched' = [dispatched EXCEPT ![c] = @ + 1]
               /\ (ipc[w] = "loop" /\ ipc'[w] = "idle") =>
                      /\ dispatched' = dispatched
                      /\ db_images' = db_images
                      /\ db_scraped' = db_scraped
       /\ (dispatched' /= dispatched) =>
            \E w \in ImageTasks : ipc[w] = "committed" /\ ipc'[w] = "idle"]_vars

\* a scrape of chapter 1 with two images has returned, after another
\* execution had raised
C37_Witness ==
    /\ \A w \in ImageTasks : ipc[w] = "idle"
    /\ iscrapes = 2
    /\ dispatched = [c \in ImageChapters |-> IF c = 1 THEN 1 ELSE 0]
    /\ db_scraped[1] = [is_scraped |-> TRUE, scraped_at |-> now, total_images |-> 2]
    /\ Cardinality({row \in db_images : row.chapter_id = 1}) = 2

\* C38: when retry_job takes a failed job back to pending, it dispatches a
\* unit of work that carries the job's id, whatever the type of the job.
C38_RetryDispatchesJob ==
    [][\A j \in JobIds :
        (jobs[j].status = "failed" /\ jobs'[j].status = "pending") =>
            \E m \in queue' \ queue : m.job = j]_vars

\* C39: when the queue runs every dispatched unit and every unit ends, every
\* job an enqueue operation created reaches a terminal state.
C39_EveryJobEnds ==
    \A j \in JobIds : <>(jobs[j].status \in {"completed", "failed", "cancelled"})

\* C40: the browser sessions started in a worker and not stopped are never
\* more than the configured pool size, over any sequence of units of work.
C40_LiveSessionsBounded == live <= CONCURRENT_BROWSERS

====
